---- MODULE Spec2Model ----
(***************************************************************************)
(* A model of the overlay-napi window/frame coordination layer.            *)
(*                                                                         *)
(*   SpecOverlay : the Overlay object of src/src/lib.rs -- the shared      *)
(*                 OverlayState, the pending InitialConfig, start() and    *)
(*                 its event loop, and the caller-facing operations.       *)
(*   SpecFrame   : the WindowState of src/src/window.rs with the           *)
(*                 FrameController, WindowController::set_size and the     *)
(*                 event dispatcher, interleaved at lock granularity.      *)
(*   SpecWindow  : the WindowController and FrameController operations of  *)
(*                 src/src/window.rs, before and after creation.           *)
(*   SpecRect    : draw_rectangle_optimized of src/src/buffer.rs.          *)
(*   SpecShapes  : draw_line_optimized, draw_circle_optimized and the      *)
(*                 blit of FrameController::draw_image.                    *)
(*   SpecPixel   : draw_pixel.                                             *)
(*   SpecFill    : fill_buffer_color of buffer.rs and of lib.rs.           *)
(*   SpecRoundTrip : update_frame fed the buffer of get_frame_buffer.      *)
(*   SpecEvents  : the event dispatcher with the occlusion policy and a    *)
(*                 close request, against controller operations.           *)
(*   SpecLock    : the state lock around every access to the pixel buffer. *)
(*   SpecDispatch : window_event, one signal at a time, with and without   *)
(*                 a registered callback.                                  *)
(*   SpecConvert : convert_pixel_format of src/src/image.rs.               *)
(*   SpecBlend   : blend_colors of color.rs and of lib.rs, in f32.         *)
(*   SpecLerp    : lerp_colors of src/src/color.rs.                        *)
(*   SpecBackground : blend_with_background of src/src/image.rs.           *)
(*   SpecSizeEvents : the Resized and Occluded arms of window_event.       *)
(*   SpecRender  : FrameController::render and the occlusion policy.       *)
(*   SpecLoops, FairSpecLoops : the loops of draw_line_optimized and       *)
(*                 draw_circle_optimized, one iteration per step.          *)
(*   SpecRedraw, FairSpecRedraw : the frame mutations on a created         *)
(*                 surface and the event loop that answers their redraw    *)
(*                 requests.                                               *)
(*   SpecLockOrder : the lock() calls and guard drops of the setters,      *)
(*                 start, the event loop and window_event.                 *)
(***************************************************************************)
EXTENDS Integers, Sequences, FiniteSets, TLC

VARIABLES
  \* ---- lib.rs: Overlay
  overlay_state,    \* OverlayState {window, pixels}
  initial_config,   \* Option<InitialConfig>
  overlay_lock,     \* holder of the Mutex around OverlayState
  start_pc,         \* position of the thread running Overlay::start
  start_local,      \* locals of start / create_overlay_window_with_config
  caller_pc,        \* position of the thread issuing Overlay operations
  o_last,           \* the last Overlay operation and what it returned
  o_calls,          \* number of Overlay operations issued so far
  presented,        \* the frame last handed to pixels.render()
  staged_pos,       \* history: the position last staged by set_position
  \* ---- window.rs: WindowState, controllers, dispatcher
  window_state,     \* WindowState
  state_lock,       \* holder of the Mutex around WindowState
  ctl_pc,           \* position of the controller thread
  ctl_local,        \* locals of the controller operation in progress
  w_last,           \* the last controller operation and what it returned
  w_calls,          \* number of controller operations issued so far
  disp_pc,          \* position of the event-loop thread in window_event
  disp_event,       \* the platform signal being dispatched
  exit_requested,   \* OverlayApplication.exit_requested
  callbacks,        \* OverlayEvents delivered to the callback, in order
  w_events,         \* number of platform signals dispatched so far
  w_presented,      \* the frame last handed to pixels.render()
  \* ---- pure functions
  fn_in,            \* arguments of the call
  fn_out            \* result of the call, "pending" before it ran

ovars == <<overlay_state, initial_config, overlay_lock, start_pc, start_local,
           caller_pc, o_last, o_calls, presented, staged_pos>>
wvars == <<window_state, state_lock, ctl_pc, ctl_local, w_last, w_calls,
           disp_pc, disp_event, exit_requested, callbacks, w_events, w_presented>>
fvars == <<fn_in, fn_out>>
vars == <<ovars, wvars, fvars>>

None == [none |-> TRUE]

\* Option<T>: Some(v), and unwrap_or
Some(v) == [v |-> v]
UnwrapOr(opt, default) == IF opt = None THEN default ELSE opt.v

Min(a, b) == IF a <= b THEN a ELSE b
Max(a, b) == IF a >= b THEN a ELSE b

\* napi::Error values
Ok == [status |-> "Ok", msg |-> ""]
Err(status, msg) == [status |-> status, msg |-> msg]

\* ---------------------------------------------------------------- bounds
MaxCalls == 3
MaxEvents == 2

\* ------------------------------------------------------------ frame bytes
(* A frame of the Overlay model is kept symbolically, since the default     *)
(* surface holds 800*600*4 bytes: bytes [0, filled) repeat the four bytes   *)
(* of px, the bytes after them are those of tail, and the rest up to len    *)
(* is zero.                                                                 *)
ZeroPx == <<0, 0, 0, 0>>
ZeroBuf(n) == [len |-> n, px |-> ZeroPx, filled |-> 0, tail |-> <<>>]

\* the byte at offset i, counted from 0
BufByte(b, i) ==
  IF i < b.filled THEN b.px[(i % 4) + 1]
  ELSE IF i < b.filled + Len(b.tail) THEN b.tail[(i - b.filled) + 1]
  ELSE 0

\* the one record that stands for the bytes of b, whatever record they came
\* in: px is the first four bytes (zero where the vector ends before them),
\* filled counts the bytes from the start that repeat px, and tail is what
\* follows them up to the last byte that is not zero.  Of a vector that
\* starts with four zeros, filled counts the zeros before the first other
\* byte; a vector of zeros is ZeroBuf.  After the bytes a record writes out
\* (fewer than four of px, and tail) come zeros, and at most three of them
\* in a row repeat a px that is not zero
NormBuf(b) ==
  LET short == b.filled < 4
      from == IF short THEN 0 ELSE b.filled
      written == IF short THEN [k \in 1..Min(b.filled, b.len) |-> b.px[k]] \o b.tail
                 ELSE b.tail
      At(k) == IF k <= Len(written) THEN written[k] ELSE 0
      px == IF short THEN [k \in 1..4 |-> IF k <= b.len THEN At(k) ELSE 0] ELSE b.px
      reach == IF px = ZeroPx THEN Len(written) ELSE Len(written) + 3
      goes_on == {n \in 0..Min(reach, b.len - from) :
                    \A k \in 1..n : At(k) = px[((from + k - 1) % 4) + 1]}
      absorbed == CHOOSE n \in goes_on : \A m \in goes_on : m <= n
      ends == {n \in absorbed..Len(written) : n = absorbed \/ written[n] # 0}
      last == IF ends = {} THEN absorbed ELSE CHOOSE n \in ends : \A m \in ends : m <= n
  IN IF px = ZeroPx /\ last = absorbed THEN ZeroBuf(b.len)
     ELSE [len |-> b.len, px |-> px, filled |-> from + absorbed,
           tail |-> SubSeq(written, absorbed + 1, last)]

PatternBuf(n, px) == NormBuf([len |-> n, px |-> px, filled |-> n, tail |-> <<>>])

\* pixels.resize_buffer: the byte vector is truncated or extended with zeros
BufResizeWith(b, n) ==
  NormBuf([len |-> n, px |-> b.px, filled |-> Min(b.filled, n),
           tail |-> SubSeq(b.tail, 1, Min(Len(b.tail), n - Min(b.filled, n)))])

\* for chunk in frame.chunks_exact_mut(4) { chunk.copy_from_slice(&rgba) }:
\* the last len % 4 bytes belong to no chunk and stay as they were
BufFillChunks(b, rgba) ==
  LET whole == b.len - (b.len % 4)
  IN NormBuf([len |-> b.len, px |-> rgba, filled |-> whole,
              tail |-> [k \in 1..(b.len - whole) |-> BufByte(b, (whole + k) - 1)]])

\* ------------------------------------------------- lib.rs: InitialConfig
DefaultWidth == 800
DefaultHeight == 600
DefaultX == 100
DefaultY == 100
DefaultTitle == "Overlay NAPI"
DefaultLevel == "AlwaysOnTop"

InitialConfig(width, height, x, y, title, window_level, initial_frame_data) ==
  [width |-> width, height |-> height, x |-> x, y |-> y, title |-> title,
   window_level |-> window_level, initial_frame_data |-> initial_frame_data]

\* Overlay::update_frame, the branch taken while state.pixels is None
StageFrameData(cfg, buffer_data) ==
  IF cfg # None
    THEN [cfg EXCEPT !.initial_frame_data = buffer_data]
    ELSE InitialConfig(DefaultWidth, DefaultHeight, DefaultX, DefaultY,
                       DefaultTitle, DefaultLevel, buffer_data)

\* Overlay::set_position, the branch taken while state.window is None
StagePosition(cfg, x, y) ==
  IF cfg # None
    THEN [cfg EXCEPT !.x = x, !.y = y]
    ELSE InitialConfig(DefaultWidth, DefaultHeight, x, y,
                       DefaultTitle, DefaultLevel, None)

\* Overlay::set_size, the branch taken while state.window is None
StageSize(cfg, width, height) ==
  IF cfg # None
    THEN [cfg EXCEPT !.width = width, !.height = height]
    ELSE InitialConfig(width, height, DefaultX, DefaultY,
                       DefaultTitle, DefaultLevel, None)

\* Overlay::set_title, the branch taken while state.window is None
StageTitle_Dropped(cfg, title) ==
  IF cfg # None
    THEN cfg
    ELSE InitialConfig(DefaultWidth, DefaultHeight, DefaultX, DefaultY,
                       DefaultTitle, DefaultLevel, None)

StageTitle(cfg, title) ==
  IF cfg # None
    THEN [cfg EXCEPT !.title = title]
    ELSE InitialConfig(DefaultWidth, DefaultHeight, DefaultX, DefaultY,
                       title, DefaultLevel, None)

\* Overlay::set_window_level, the branch taken while state.window is None
StageWindowLevel(cfg, level) ==
  IF cfg # None
    THEN [cfg EXCEPT !.window_level = level]
    ELSE InitialConfig(DefaultWidth, DefaultHeight, DefaultX, DefaultY,
                       DefaultTitle, level, None)

\* create_overlay_window_with_config: the values read under the config lock
ReadConfig(cfg) ==
  IF cfg # None
    THEN [width |-> cfg.width, height |-> cfg.height, title |-> cfg.title,
          x |-> cfg.x, y |-> cfg.y, window_level |-> cfg.window_level]
    ELSE [width |-> DefaultWidth, height |-> DefaultHeight, title |-> DefaultTitle,
          x |-> DefaultX, y |-> DefaultY, window_level |-> DefaultLevel]

PlatformDefault == [platform_default |-> TRUE]

\* create_overlay_window_with_config: the WindowBuilder and its position rule.
\* A window built without with_position is placed by the platform.
BuildWindow(c) ==
  [position |-> IF c.x # 0 \/ c.y # 0 THEN [x |-> c.x, y |-> c.y] ELSE PlatformDefault,
   size |-> <<c.width, c.height>>,
   title |-> c.title,
   level |-> c.window_level,
   visible |-> TRUE,
   redraw |-> FALSE]

\* Pixels::new(window_size.width, window_size.height, ..): a zeroed RGBA frame
BuildPixels(win) == ZeroBuf(win.size[1] * win.size[2] * 4)

\* (size as f64).sqrt() as u32
RECURSIVE SqrtIter(_, _)
SqrtIter(n, x) ==
  LET y == (x + n \div x) \div 2
  IN IF y >= x THEN x ELSE SqrtIter(n, y)
SqrtFloor(n) == IF n = 0 THEN 0 ELSE SqrtIter(n, n)

\* Overlay::get_frame_size on a created surface
FrameSizeOf(frame) ==
  LET size == frame.len \div 4
      width == SqrtFloor(size)
  IN <<width, width>>

\* ------------------------------------------------------ lib.rs: Overlay
Red == <<255, 0, 0, 255>>
Pos(x, y) == [x |-> x, y |-> y]
OPositions == {Pos(0, 0), Pos(10, 20), Pos(-5, 7)}
OSizes == {<<2, 1>>}
OTitles == {"Test"}
OLevels == {"Normal"}
OPayloads == {PatternBuf(DefaultWidth * DefaultHeight * 4, Red),
              PatternBuf(8, Red), PatternBuf(100, Red)}
OResized == {<<1, 1>>}

NotInitialized == Err("GenericFailure", "Overlay not initialized")
Pending == [status |-> "Pending", msg |-> ""]
Panicked == [status |-> "Panic", msg |-> ""]

\* Overlay::new and the threads before any call
OInit ==
  /\ overlay_state = [window |-> None, pixels |-> None]
  /\ initial_config = None
  /\ overlay_lock = "free"
  /\ start_pc = "idle"
  /\ start_local = [frame_data |-> None, cfg |-> None, staged_pos |-> None,
                    window |-> None, pixels |-> None, result |-> Pending,
                    starts |-> 0, frame_reads |-> 0, config_reads |-> 0,
                    creations |-> 0, failed |-> 0]
  /\ caller_pc = "idle"
  /\ o_last = [op |-> "none", args |-> <<>>, created |-> FALSE,
               result |-> Pending, value |-> None]
  /\ o_calls = 0
  /\ presented = None
  /\ staged_pos = None

\* the state of the Overlay model while another specification runs
OIdle ==
  /\ overlay_state = [window |-> None, pixels |-> None]
  /\ initial_config = None
  /\ overlay_lock = "free"
  /\ start_pc = "off"
  /\ start_local = None
  /\ caller_pc = "off"
  /\ o_last = None
  /\ o_calls = 0
  /\ presented = None
  /\ staged_pos = None

\* the calls followed to their return: the caller's, and the calls of start
\* that returned an error
CallsReturned == o_calls + start_local.failed

\* a caller operation runs from state.lock() to the release of its guard
CallerReady ==
  /\ caller_pc = "idle"
  /\ overlay_lock = "free"
  /\ start_pc # "exited"
  /\ CallsReturned < MaxCalls

Return(op, args, result, value) ==
  /\ o_last' = [op |-> op, args |-> args,
                created |-> overlay_state.window # None,
                result |-> result, value |-> value]
  /\ o_calls' = o_calls + 1

OFrame == <<overlay_lock, start_pc, start_local, caller_pc>>

\* Overlay::update_frame
OUpdateFrame ==
  \E buffer \in OPayloads :
    /\ CallerReady
    /\ IF overlay_state.pixels # None
         THEN IF buffer.len # overlay_state.pixels.len
                THEN /\ Return("update_frame", <<buffer>>,
                               Err("InvalidArg", "Buffer size mismatch"), None)
                     /\ UNCHANGED overlay_state
                ELSE /\ overlay_state' = [overlay_state EXCEPT !.pixels = buffer]
                     /\ Return("update_frame", <<buffer>>, Ok, None)
         ELSE /\ Return("update_frame", <<buffer>>, Ok, None)
              /\ UNCHANGED overlay_state
    /\ initial_config' = IF overlay_state.pixels # None THEN initial_config
                         ELSE StageFrameData(initial_config, buffer)
    /\ UNCHANGED <<OFrame, presented, staged_pos, wvars, fvars>>

\* Overlay::get_frame_size
OGetFrameSize ==
  /\ CallerReady
  /\ IF overlay_state.pixels # None
       THEN Return("get_frame_size", <<>>, Ok, FrameSizeOf(overlay_state.pixels))
       ELSE Return("get_frame_size", <<>>, NotInitialized, None)
  /\ UNCHANGED <<overlay_state, initial_config, OFrame, presented, staged_pos, wvars, fvars>>

\* Overlay::show and Overlay::hide
OSetVisible(op, visible) ==
  /\ CallerReady
  /\ IF overlay_state.window # None
       THEN /\ overlay_state' = [overlay_state EXCEPT !.window.visible = visible]
            /\ Return(op, <<>>, Ok, None)
       ELSE /\ Return(op, <<>>, NotInitialized, None)
            /\ UNCHANGED overlay_state
  /\ UNCHANGED <<initial_config, OFrame, presented, staged_pos, wvars, fvars>>

OShow == OSetVisible("show", TRUE)

OHide == OSetVisible("hide", FALSE)

\* Overlay::set_position
OSetPosition ==
  \E p \in OPositions :
    /\ CallerReady
    /\ IF overlay_state.window # None
         THEN /\ overlay_state' = [overlay_state EXCEPT !.window.position = p]
              /\ UNCHANGED <<initial_config, staged_pos>>
         ELSE /\ initial_config' = StagePosition(initial_config, p.x, p.y)
              /\ staged_pos' = p
              /\ UNCHANGED overlay_state
    /\ Return("set_position", <<p.x, p.y>>, Ok, None)
    /\ UNCHANGED <<OFrame, presented, wvars, fvars>>

\* Overlay::get_position; outer_position() may fail on the platform
OGetPosition ==
  \E platform_ok \in BOOLEAN :
    /\ CallerReady
    /\ IF overlay_state.window # None
         THEN IF platform_ok
                THEN Return("get_position", <<>>, Ok, overlay_state.window.position)
                ELSE Return("get_position", <<>>,
                            Err("GenericFailure", "Failed to get position"), None)
         ELSE Return("get_position", <<>>, NotInitialized, None)
    /\ UNCHANGED <<overlay_state, initial_config, OFrame, presented, staged_pos, wvars, fvars>>

\* Overlay::set_size
OSetSize ==
  \E s \in OSizes :
    /\ CallerReady
    /\ IF overlay_state.window # None
         THEN /\ overlay_state' = [overlay_state EXCEPT !.window.size = s]
              /\ UNCHANGED initial_config
         ELSE /\ initial_config' = StageSize(initial_config, s[1], s[2])
              /\ UNCHANGED overlay_state
    /\ Return("set_size", s, Ok, None)
    /\ UNCHANGED <<OFrame, presented, staged_pos, wvars, fvars>>

\* Overlay::get_size
OGetSize ==
  /\ CallerReady
  /\ IF overlay_state.window # None
       THEN Return("get_size", <<>>, Ok, overlay_state.window.size)
       ELSE Return("get_size", <<>>, NotInitialized, None)
  /\ UNCHANGED <<overlay_state, initial_config, OFrame, presented, staged_pos, wvars, fvars>>

\* Overlay::set_title
OSetTitle_AlwaysStaged ==
  \E title \in OTitles :
    /\ CallerReady
    /\ initial_config' = StageTitle(initial_config, title)
    /\ UNCHANGED overlay_state
    /\ Return("set_title", <<title>>, Ok, None)
    /\ UNCHANGED <<OFrame, presented, staged_pos, wvars, fvars>>

OSetTitle ==
  \E title \in OTitles :
    /\ CallerReady
    /\ IF overlay_state.window # None
         THEN /\ overlay_state' = [overlay_state EXCEPT !.window.title = title]
              /\ UNCHANGED initial_config
         ELSE /\ initial_config' = StageTitle(initial_config, title)
              /\ UNCHANGED overlay_state
    /\ Return("set_title", <<title>>, Ok, None)
    /\ UNCHANGED <<OFrame, presented, staged_pos, wvars, fvars>>

\* Overlay::set_window_level
OSetWindowLevel ==
  \E level \in OLevels :
    /\ CallerReady
    /\ IF overlay_state.window # None
         THEN /\ overlay_state' = [overlay_state EXCEPT !.window.level = level]
              /\ UNCHANGED initial_config
         ELSE /\ initial_config' = StageWindowLevel(initial_config, level)
              /\ UNCHANGED overlay_state
    /\ Return("set_window_level", <<level>>, Ok, None)
    /\ UNCHANGED <<OFrame, presented, staged_pos, wvars, fvars>>

\* Overlay::request_redraw
ORequestRedraw ==
  /\ CallerReady
  /\ IF overlay_state.window # None
       THEN /\ overlay_state' = [overlay_state EXCEPT !.window.redraw = TRUE]
            /\ Return("request_redraw", <<>>, Ok, None)
       ELSE /\ Return("request_redraw", <<>>, NotInitialized, None)
            /\ UNCHANGED overlay_state
  /\ UNCHANGED <<initial_config, OFrame, presented, staged_pos, wvars, fvars>>

\* Overlay::is_visible: window.is_visible().unwrap_or(false); the platform
\* reports the visibility or cannot tell (None)
OIsVisible ==
  /\ CallerReady
  /\ IF overlay_state.window # None
       THEN \E reported \in {Some(overlay_state.window.visible), None} :
              Return("is_visible", <<>>, Ok, UnwrapOr(reported, FALSE))
       ELSE Return("is_visible", <<>>, NotInitialized, None)
  /\ UNCHANGED <<overlay_state, initial_config, OFrame, presented, staged_pos, wvars, fvars>>

\* Overlay::clear_frame
OClearFrame ==
  /\ CallerReady
  /\ IF overlay_state.pixels # None
       THEN /\ overlay_state' = [overlay_state EXCEPT
                                   !.pixels = BufFillChunks(overlay_state.pixels, Red)]
            /\ Return("clear_frame", Red, Ok, None)
       ELSE /\ Return("clear_frame", Red, NotInitialized, None)
            /\ UNCHANGED overlay_state
  /\ UNCHANGED <<initial_config, OFrame, presented, staged_pos, wvars, fvars>>

\* Overlay::draw_rectangle.  On a created surface it calls self.get_frame_size()
\* while its own guard is alive: the second state.lock() never returns.
ODrawRectangle ==
  /\ CallerReady
  /\ IF overlay_state.pixels # None
       THEN /\ overlay_lock' = "caller"
            /\ caller_pc' = "relock"
            /\ Return("draw_rectangle", <<0, 0, 1, 1>>, Pending, None)
       ELSE /\ Return("draw_rectangle", <<0, 0, 1, 1>>, NotInitialized, None)
            /\ UNCHANGED <<overlay_lock, caller_pc>>
  /\ UNCHANGED <<overlay_state, initial_config, start_pc, start_local,
                 presented, staged_pos, wvars, fvars>>

\* std::sync::Mutex::lock on a mutex the thread already holds: it blocks
\* forever (no step) or panics, which poisons the mutex
ORelockPanics ==
  /\ caller_pc = "relock"
  /\ caller_pc' = "panicked"
  /\ overlay_lock' = "poisoned"
  /\ o_last' = [o_last EXCEPT !.result = Panicked]
  /\ UNCHANGED <<overlay_state, initial_config, start_pc, start_local, o_calls,
                 presented, staged_pos, wvars, fvars>>

\* ---------------------------------------------- lib.rs: Overlay::start
\* start: the initial frame data is read under the config lock.  Of
\* start_local, starts counts the calls of start, frame_reads and
\* config_reads the times initial_config was locked and read by start and by
\* create_overlay_window_with_config, creations the surfaces built from what
\* was read, and failed the calls of start that returned an error
StartReadFrameData ==
  /\ start_pc = "idle"
  /\ start_local' = [start_local EXCEPT
       !.frame_data = IF initial_config # None
                        THEN initial_config.initial_frame_data ELSE None,
       !.cfg = None, !.window = None, !.pixels = None, !.result = Pending,
       !.starts = @ + 1, !.frame_reads = @ + 1]
  /\ start_pc' = "read_config"
  /\ UNCHANGED <<overlay_state, initial_config, overlay_lock, caller_pc, o_last,
                 o_calls, presented, staged_pos, wvars, fvars>>

\* create_overlay_window_with_config: the configuration is read under the
\* config lock, which is dropped before the window is built
StartReadConfig ==
  /\ start_pc = "read_config"
  /\ start_local' = [start_local EXCEPT !.cfg = ReadConfig(initial_config),
                                        !.staged_pos = staged_pos,
                                        !.config_reads = @ + 1]
  /\ start_pc' = "build"
  /\ UNCHANGED <<overlay_state, initial_config, overlay_lock, caller_pc, o_last,
                 o_calls, presented, staged_pos, wvars, fvars>>

\* start: EventLoopBuilder::new().build() in a call of start that follows
\* another: the platform may refuse a second event loop with a panic, after
\* start has read the frame data and before the configuration is read
StartEventLoopRefused ==
  /\ start_pc = "read_config"
  /\ start_local.starts > 1
  /\ start_pc' = "panicked"
  /\ UNCHANGED <<overlay_state, initial_config, overlay_lock, start_local,
                 caller_pc, o_last, o_calls, presented, staged_pos, wvars, fvars>>

\* create_overlay_window_with_config: window_builder.build and Pixels::new,
\* either of which may fail on the platform; start then returns that error
StartBuild ==
  \E platform \in {"built", "no_window", "no_pixels"} :
    /\ start_pc = "build"
    /\ platform # "built" => CallsReturned < MaxCalls
    /\ IF platform = "built"
         THEN /\ start_local' = [start_local EXCEPT
                   !.window = BuildWindow(start_local.cfg),
                   !.pixels = BuildPixels(BuildWindow(start_local.cfg)),
                   !.creations = @ + 1]
              /\ start_pc' = "store"
         ELSE /\ start_local' = [start_local EXCEPT
                   !.result = Err("GenericFailure",
                                  IF platform = "no_window"
                                    THEN "Failed to create window"
                                    ELSE "Failed to create pixels"),
                   !.failed = @ + 1]
              /\ start_pc' = "idle"
    /\ UNCHANGED <<overlay_state, initial_config, overlay_lock, caller_pc, o_last,
                   o_calls, presented, staged_pos, wvars, fvars>>

\* start: state_guard = state.lock(); state_guard.window = Some(window)
StartStoreWindow ==
  /\ start_pc = "store"
  /\ overlay_lock = "free"
  /\ overlay_lock' = "start"
  /\ overlay_state' = [overlay_state EXCEPT !.window = start_local.window]
  /\ start_pc' = "store_pixels"
  /\ UNCHANGED <<initial_config, start_local, caller_pc, o_last, o_calls,
                 presented, staged_pos, wvars, fvars>>

\* start: state_guard.pixels = Some(pixels); the guard is dropped
StartStorePixels_Forgotten ==
  /\ start_pc = "store_pixels"
  /\ overlay_lock = "start"
  /\ overlay_lock' = "free"
  /\ start_pc' = "apply"
  /\ UNCHANGED <<overlay_state, initial_config, start_local, caller_pc, o_last,
                 o_calls, presented, staged_pos, wvars, fvars>>

StartStorePixels ==
  /\ start_pc = "store_pixels"
  /\ overlay_lock = "start"
  /\ overlay_state' = [overlay_state EXCEPT !.pixels = start_local.pixels]
  /\ overlay_lock' = "free"
  /\ start_pc' = "apply"
  /\ UNCHANGED <<initial_config, start_local, caller_pc, o_last, o_calls,
                 presented, staged_pos, wvars, fvars>>

\* start: the initial frame data is copied when its length is the frame's
StartApplyFrame ==
  /\ start_pc = "apply"
  /\ IF start_local.frame_data # None
       THEN /\ overlay_lock = "free"
            /\ overlay_state' =
                 IF overlay_state.pixels # None
                    /\ start_local.frame_data.len = overlay_state.pixels.len
                   THEN [overlay_state EXCEPT !.pixels = start_local.frame_data]
                   ELSE overlay_state
       ELSE UNCHANGED overlay_state
  /\ start_pc' = "running"
  /\ UNCHANGED <<initial_config, overlay_lock, start_local, caller_pc, o_last,
                 o_calls, presented, staged_pos, wvars, fvars>>

\* event loop: WindowEvent::CloseRequested sets ControlFlow::Exit
StartCloseRequested ==
  /\ start_pc = "running"
  /\ start_pc' = "exited"
  /\ UNCHANGED <<overlay_state, initial_config, overlay_lock, start_local,
                 caller_pc, o_last, o_calls, presented, staged_pos, wvars, fvars>>

\* pixels.resize_buffer(width, height): refused for a zero dimension
ResizeBufferFails(width, height) == width = 0 \/ height = 0

\* event loop: WindowEvent::Resized(size); the result of resize_buffer is dropped
StartResized ==
  \E size \in OResized :
    /\ start_pc = "running"
    /\ overlay_lock = "free"
    /\ overlay_state' =
         [overlay_state EXCEPT
            !.window.size = size,
            !.pixels = IF overlay_state.pixels # None
                          /\ ~ResizeBufferFails(size[1], size[2])
                         THEN BufResizeWith(overlay_state.pixels, size[1] * size[2] * 4)
                         ELSE overlay_state.pixels]
    /\ UNCHANGED <<initial_config, overlay_lock, start_pc, start_local, caller_pc,
                   o_last, o_calls, presented, staged_pos, wvars, fvars>>

\* event loop: Event::RedrawRequested renders the current frame; a
\* pixels.render() that fails is printed to stderr and presents nothing
StartRedrawRequested ==
  \E render_ok \in BOOLEAN :
  /\ start_pc = "running"
  /\ overlay_lock = "free"
  /\ presented' = IF overlay_state.pixels # None /\ render_ok
                    THEN overlay_state.pixels
                  ELSE presented
  /\ overlay_state' = [overlay_state EXCEPT !.window.redraw = FALSE]
  /\ UNCHANGED <<initial_config, overlay_lock, start_pc, start_local, caller_pc,
                 o_last, o_calls, staged_pos, wvars, fvars>>

\* event loop: Event::MainEventsCleared requests a redraw on each frame
StartMainEventsCleared ==
  /\ start_pc = "running"
  /\ overlay_lock = "free"
  /\ overlay_state' = IF overlay_state.window # None
                        THEN [overlay_state EXCEPT !.window.redraw = TRUE]
                        ELSE overlay_state
  /\ UNCHANGED <<initial_config, overlay_lock, start_pc, start_local, caller_pc,
                 o_last, o_calls, presented, staged_pos, wvars, fvars>>

\* state.lock().unwrap() on a poisoned mutex panics
StartPoisoned ==
  /\ \/ start_pc \in {"store", "running"}
     \/ start_pc = "apply" /\ start_local.frame_data # None
  /\ overlay_lock = "poisoned"
  /\ start_pc' = "panicked"
  /\ UNCHANGED <<overlay_state, initial_config, overlay_lock, start_local,
                 caller_pc, o_last, o_calls, presented, staged_pos, wvars, fvars>>

\* the state of the window.rs model while another specification runs
WIdle ==
  /\ window_state = None
  /\ state_lock = "free"
  /\ ctl_pc = "off"
  /\ ctl_local = None
  /\ w_last = None
  /\ w_calls = 0
  /\ disp_pc = "off"
  /\ disp_event = None
  /\ exit_requested = FALSE
  /\ callbacks = <<>>
  /\ w_events = 0
  /\ w_presented = None

\* the state of the function harness while another specification runs
FIdle ==
  /\ fn_in = None
  /\ fn_out = None

OverlayInit == OInit /\ WIdle /\ FIdle

OverlayNext ==
  \/ OUpdateFrame
  \/ OGetFrameSize
  \/ OShow
  \/ OHide
  \/ OSetPosition
  \/ OGetPosition
  \/ OSetSize
  \/ OGetSize
  \/ OSetTitle
  \/ OSetWindowLevel
  \/ ORequestRedraw
  \/ OIsVisible
  \/ OClearFrame
  \/ ODrawRectangle
  \/ ORelockPanics
  \/ StartReadFrameData
  \/ StartReadConfig
  \/ StartEventLoopRefused
  \/ StartBuild
  \/ StartStoreWindow
  \/ StartStorePixels
  \/ StartApplyFrame
  \/ StartCloseRequested
  \/ StartResized
  \/ StartRedrawRequested
  \/ StartMainEventsCleared
  \/ StartPoisoned

SpecOverlay == OverlayInit /\ [][OverlayNext]_vars

\* ------------------------------------------------ claims on SpecOverlay
OSetters == {"set_position", "set_size", "set_title", "set_window_level",
             "update_frame"}
ONonSetters == {"get_frame_size", "show", "hide", "get_position", "get_size",
                "request_redraw", "is_visible", "clear_frame", "draw_rectangle"}

\* start has built the window from the configuration it read
PostBuild ==
  start_pc \in {"store", "store_pixels", "apply", "running", "exited", "panicked"}

\* the value a setter call was given is the one the pending configuration holds
StagedIn(cfg, call) ==
  CASE call.op = "set_position" -> cfg.x = call.args[1] /\ cfg.y = call.args[2]
    [] call.op = "set_size" -> cfg.width = call.args[1] /\ cfg.height = call.args[2]
    [] call.op = "set_title" -> cfg.title = call.args[1]
    [] call.op = "set_window_level" -> cfg.window_level = call.args[1]
    [] call.op = "update_frame" -> cfg.initial_frame_data = call.args[1]
    [] OTHER -> FALSE

(* C3: no successfully staged value is lost.  Once start() has built the    *)
(* window, every value held by the pending configuration is one that        *)
(* start() read and used, under every interleaving of a setter with start.  *)
C3_NoStagedValueLost ==
  (PostBuild /\ initial_config # None) =>
    /\ ReadConfig(initial_config) = start_local.cfg
    /\ initial_config.initial_frame_data = start_local.frame_data

\* the part of C4 that Overlay keeps: before the surface exists each Overlay
\* setter returns success and its value is in the pending configuration
C4_SettersStageBeforeCreation ==
  (o_last.op \in OSetters /\ ~o_last.created) =>
    /\ o_last.result = Ok
    /\ initial_config # None
    /\ StagedIn(initial_config, o_last)

C4_Witness ==
  /\ o_last.op = "set_title"
  /\ ~o_last.created
  /\ o_last.result = Ok
  /\ initial_config # None
  /\ initial_config.title = "Test"
  /\ initial_config.x = 10

(* C5: on an Overlay whose surface has not been created every one of the    *)
(* fourteen listed operations returns an error, as the assertions of        *)
(* tests::test_error_handling have it.                                      *)
C5_AllFailUninitialized ==
  (o_last.op \in (OSetters \cup ONonSetters) /\ ~o_last.created) =>
    o_last.result.status # "Ok"

\* what the code does instead: on an Overlay whose surface has not been
\* created the nine operations that are not setters return the
\* not-initialized error, and the five setters return success
C5_NonSettersFailUninitialized ==
  ~o_last.created =>
    /\ o_last.op \in ONonSetters => o_last.result = NotInitialized
    /\ o_last.op \in OSetters => o_last.result = Ok

(* C7: the window is created at exactly the position last staged by         *)
(* set_position before start() read the configuration, for every position.  *)
C7_CreatedAtStagedPosition ==
  (PostBuild /\ start_local.staged_pos # None) =>
    start_local.window.position = start_local.staged_pos

(* C8: whenever start() is not inside its storing critical section, the     *)
(* window handle is present if and only if the pixel surface is present.    *)
C8_WindowIffPixels ==
  overlay_lock # "start" =>
    ((overlay_state.window = None) <=> (overlay_state.pixels = None))

C8_Witness ==
  /\ overlay_lock = "free"
  /\ start_pc = "apply"
  /\ overlay_state.window # None
  /\ overlay_state.pixels # None

\* ---------------------------------------------- buffer.rs: raster helpers
\* 2^32 and, for the usize of a 64-bit target, 2^64.  Both lie beyond the
\* integers the model checker computes with (they end at 2^31 - 1): the
\* operators below reach for them only when a value has left that range, so
\* they are exact on all of u32 and usize and computable on the model's inputs
U32Modulus == (2147483647 + 2147483647) + 2
UsizeModulus == U32Modulus * U32Modulus

\* u32::saturating_add: the sum, or u32::MAX when the sum is larger
SaturatingAdd(a, b) ==
  IF a <= 2147483647 - b THEN a + b ELSE Min(a + b, U32Modulus - 1)

\* frame_width as u32: the low 32 bits of a usize
AsU32(n) == IF n <= 2147483647 THEN n ELSE n % U32Modulus

\* (row * width + column) * 4 in usize: whether the arithmetic overflows,
\* which panics in a build with overflow checks, and the wrapped value that a
\* build without them goes on with.  No operand is negative, so an
\* intermediate result overflows only if the last one does
ByteIndex(row, width, column) ==
  LET exact == (row * width + column) * 4
  IN IF exact <= 2147483647 THEN [overflow |-> FALSE, index |-> exact]
     ELSE [overflow |-> exact >= UsizeModulus, index |-> exact % UsizeModulus]

\* a frame of n zero bytes
ZeroFrame(n) == [i \in 1..n |-> 0]

\* frame[index..index + 4].copy_from_slice(&rgba), index counted from 0
WriteChunk(frame, index, rgba) ==
  [i \in 1..Len(frame) |->
     IF index < i /\ i <= index + 4 THEN rgba[i - index] ELSE frame[i]]

\* clear_buffer_optimized: every complete 4-byte chunk takes the colour
ClearBufferOptimized(frame, rgba) ==
  [i \in 1..Len(frame) |->
     IF i <= Len(frame) - (Len(frame) % 4) THEN rgba[((i - 1) % 4) + 1] ELSE frame[i]]

\* draw_rectangle_optimized: for index in (row_start..row_end).step_by(4);
\* slicing frame[index..index + 4] past the end of the frame panics
RECURSIVE RectRow(_, _, _, _)
RectRow(frame, index, row_end, rgba) ==
  IF index >= row_end THEN [panic |-> FALSE, frame |-> frame]
  ELSE IF index + 4 > Len(frame) THEN [panic |-> TRUE, frame |-> frame]
  ELSE RectRow(WriteChunk(frame, index, rgba), index + 4, row_end, rgba)

\* draw_rectangle_optimized: for py in start_y..end_y; row_start and row_end
\* are computed in usize
RECURSIVE RectRows(_, _, _, _, _, _, _, _)
RectRows(frame, py, end_y, start_x, end_x, frame_width, rgba, overflow_checks) ==
  IF py >= end_y THEN [panic |-> FALSE, frame |-> frame]
  ELSE LET row_start == ByteIndex(py, frame_width, start_x)
           row_end == ByteIndex(py, frame_width, end_x)
           row == RectRow(frame, row_start.index, row_end.index, rgba)
       IN IF (row_start.overflow \/ row_end.overflow) /\ overflow_checks
            THEN [panic |-> TRUE, frame |-> frame]
          ELSE IF row.panic THEN row
          ELSE RectRows(row.frame, py + 1, end_y, start_x, end_x, frame_width, rgba,
                        overflow_checks)

\* draw_rectangle_optimized(frame, RectangleParams, color); overflow_checks is
\* the build
DrawRectangleOptimized(frame, x, y, width, height, frame_width, frame_height, rgba, overflow_checks) ==
  LET start_x == Min(x, AsU32(frame_width))
      start_y == Min(y, AsU32(frame_height))
      end_x == Min(SaturatingAdd(x, width), AsU32(frame_width))
      end_y == Min(SaturatingAdd(y, height), AsU32(frame_height))
  IN RectRows(frame, start_y, end_y, start_x, end_x, frame_width, rgba, overflow_checks)

\* ------------------------------------- buffer.rs: 32-bit arithmetic
\* i32::MAX and i32::MIN.  A u32 is held as the i32 with the same bits, so a
\* value of 2^31 or more is a negative number here
I32Max == 2147483647
I32Min == (-I32Max) - 1

\* a + b on i32 overflows
AddI32Overflows(a, b) ==
  \/ b > 0 /\ a > I32Max - b
  \/ b < 0 /\ a < I32Min - b

\* i32::wrapping_add, which is also u32::wrapping_add on the same bits
WrappingAdd(a, b) ==
  IF b > 0 /\ a > I32Max - b THEN I32Min + ((a - (I32Max - b)) - 1)
  ELSE IF b < 0 /\ a < I32Min - b THEN I32Max - ((I32Min - b) - (a + 1))
  ELSE a + b

\* u32::wrapping_mul, by doubling; half and twice are bound as values, each
\* computed once.  A factor b of 2^31 or more is 2^31 + (b - I32Min), and
\* a * 2^31 is 2^31 for an odd a and 0 for an even one
RECURSIVE WrappingMul(_, _)
WrappingMul(a, b) ==
  IF b = 0 THEN 0
  ELSE IF b < 0
    THEN WrappingAdd(WrappingMul(a, b - I32Min), IF a % 2 = 1 THEN I32Min ELSE 0)
  ELSE CHOOSE product \in
         { IF b % 2 = 1 THEN WrappingAdd(twice, a) ELSE twice :
             twice \in { WrappingAdd(half, half) :
                           half \in {WrappingMul(a, b \div 2)} } } : TRUE

\* a * b on u32 overflows: b > (2^32 - 1) div a.  A factor of 2^31 or more
\* (negative here) overflows with every other factor but 0 and 1
MulU32Overflows(a, b) ==
  IF a < 0 THEN b \notin {0, 1}
  ELSE IF b < 0 THEN a \notin {0, 1}
  ELSE /\ a > 0
       /\ LET q1 == I32Max \div a
              r1 == I32Max % a
          IN /\ q1 <= I32Max \div 2
             /\ b > 2 * q1 + (IF r1 + 1 >= a - r1 THEN 1 ELSE 0)

\* (py as u32 * buffer_width + px as u32): the pixel number as a u32 and
\* whether the multiplication or the addition overflowed.  The sum of two
\* u32 values overflows when both are 2^31 or more, and when one is and the
\* sum of the two i32 values is not negative
PixelNumber(px, py, buffer_width) ==
  LET product == WrappingMul(py, buffer_width)
      sum_overflows == IF product < 0 /\ px < 0 THEN TRUE
                       ELSE IF product < 0 \/ px < 0 THEN product + px >= 0
                       ELSE FALSE
  IN [overflow |-> MulU32Overflows(py, buffer_width) \/ sum_overflows,
      pixel |-> WrappingAdd(product, px)]

\* buffer[index..index + 4].copy_from_slice(&rgba): a slice that ends past
\* the buffer panics
SliceWrite(buffer, index, rgba) ==
  IF index + 4 > Len(buffer) THEN [panic |-> TRUE, buffer |-> buffer]
  ELSE [panic |-> FALSE, buffer |-> WriteChunk(buffer, index, rgba)]

\* the guard with the last byte of the pixel left out
InBuffer_FirstByteOnly(index, len) == index < len

\* if index + 3 < buffer.len()
InBuffer(index, len) == index + 3 < len

\* index = pixel as usize * 4, guarded write.  A pixel number of 2^29 or more
\* gives an index beyond every buffer of the model.  With overflow checks an
\* overflow is a panic, without them the wrapped pixel number is used
PutPixel(buffer, px, py, buffer_width, rgba, overflow_checks) ==
  LET n == PixelNumber(px, py, buffer_width)
  IN IF n.overflow /\ overflow_checks THEN [panic |-> TRUE, buffer |-> buffer]
     ELSE IF n.pixel >= 0 /\ n.pixel < I32Max \div 4
                          /\ InBuffer(n.pixel * 4, Len(buffer))
       THEN SliceWrite(buffer, n.pixel * 4, rgba)
       ELSE [panic |-> FALSE, buffer |-> buffer]

\* a < b on u32, each held as the i32 with its bits: a value of 2^31 or more
\* (negative here) is above every value below 2^31
LessU32(a, b) == IF (a < 0) = (b < 0) THEN a < b ELSE b < 0

\* the bounds check with column 0 and row 0 left out
PlotChecked_OriginExcluded(buffer, px, py, buffer_width, buffer_height, rgba, overflow_checks) ==
  IF px > 0 /\ py > 0 /\ LessU32(px, buffer_width) /\ LessU32(py, buffer_height)
    THEN PutPixel(buffer, px, py, buffer_width, rgba, overflow_checks)
    ELSE [panic |-> FALSE, buffer |-> buffer]

\* if x0 >= 0 && y0 >= 0 && (x0 as u32) < buffer_width && (y0 as u32) < buffer_height
PlotChecked(buffer, px, py, buffer_width, buffer_height, rgba, overflow_checks) ==
  IF px >= 0 /\ py >= 0 /\ LessU32(px, buffer_width) /\ LessU32(py, buffer_height)
    THEN PutPixel(buffer, px, py, buffer_width, rgba, overflow_checks)
    ELSE [panic |-> FALSE, buffer |-> buffer]

\* a - b on i32 overflows
SubI32Overflows(a, b) ==
  IF b = I32Min THEN a >= 0 ELSE AddI32Overflows(a, -b)

\* i32::wrapping_sub
WrappingSub(a, b) ==
  IF b = I32Min THEN WrappingAdd(WrappingAdd(a, I32Max), 1) ELSE WrappingAdd(a, -b)

\* i32::abs on a value that is not i32::MIN
Abs(a) == IF a < 0 THEN -a ELSE a

\* draw_line_optimized: the loop, from the bounds-checked write of (x0, y0) to
\* the two error steps.  visited is the sequence of points (x0, y0) the loop
\* has been at
RECURSIVE LineLoop(_, _, _, _, _, _, _, _, _, _, _, _, _, _, _)
LineLoop(buffer, visited, x0, y0, error, x1_i, y1_i, dx, dy, sx, sy, buffer_width, buffer_height, rgba, overflow_checks) ==
  LET plotted == PlotChecked(buffer, x0, y0, buffer_width, buffer_height, rgba,
                             overflow_checks)
      here == Append(visited, <<x0, y0>>)
  IN IF plotted.panic
       THEN [panic |-> TRUE, buffer |-> plotted.buffer, visited |-> here]
     ELSE IF x0 = x1_i /\ y0 = y1_i
       THEN [panic |-> FALSE, buffer |-> plotted.buffer, visited |-> here]
     ELSE LET e2 == WrappingAdd(error, error)
              step_x == e2 >= dy
              error_x == IF step_x THEN WrappingAdd(error, dy) ELSE error
              next_x == IF step_x THEN WrappingAdd(x0, sx) ELSE x0
              step_y == e2 <= dx
              error_y == IF step_y THEN WrappingAdd(error_x, dx) ELSE error_x
              next_y == IF step_y THEN WrappingAdd(y0, sy) ELSE y0
              overflow ==
                \/ AddI32Overflows(error, error)
                \/ step_x /\ (AddI32Overflows(error, dy) \/ AddI32Overflows(x0, sx))
                \/ step_y /\ (AddI32Overflows(error_x, dx) \/ AddI32Overflows(y0, sy))
          IN IF overflow /\ overflow_checks
               THEN [panic |-> TRUE, buffer |-> plotted.buffer, visited |-> here]
               ELSE LineLoop(plotted.buffer, here, next_x, next_y, error_y, x1_i, y1_i,
                             dx, dy, sx, sy, buffer_width, buffer_height, rgba,
                             overflow_checks)

\* draw_line_optimized(buffer, LineParams, color), and the same loop in
\* lib.rs draw_line; x1 as i32 is the identity on the model's coordinates,
\* all below 2^31
DrawLineOptimized(buffer, x1, y1, x2, y2, buffer_width, buffer_height, rgba, overflow_checks) ==
  LET dx == Abs(x2 - x1)
      dy == -Abs(y2 - y1)
      sx == IF x1 < x2 THEN 1 ELSE -1
      sy == IF y1 < y2 THEN 1 ELSE -1
  IN LineLoop(buffer, <<>>, x1, y1, dx + dy, x2, y2, dx, dy, sx, sy,
              buffer_width, buffer_height, rgba, overflow_checks)

\* for (px, py) in points: the bounds-checked writes of one octant step
RECURSIVE PlotPoints(_, _, _, _, _, _, _)
PlotPoints(buffer, points, i, buffer_width, buffer_height, rgba, overflow_checks) ==
  IF i > Len(points) THEN [panic |-> FALSE, buffer |-> buffer]
  ELSE LET plotted == PlotChecked(buffer, points[i][1], points[i][2],
                                  buffer_width, buffer_height, rgba, overflow_checks)
       IN IF plotted.panic THEN plotted
          ELSE PlotPoints(plotted.buffer, points, i + 1, buffer_width,
                          buffer_height, rgba, overflow_checks)

\* the points array without the four points that swap x and y
CirclePoints_NoSwap(cx_i, cy_i, x, y) ==
  << <<WrappingAdd(cx_i, x), WrappingAdd(cy_i, y)>>,
     <<WrappingSub(cx_i, x), WrappingAdd(cy_i, y)>>,
     <<WrappingAdd(cx_i, x), WrappingSub(cy_i, y)>>,
     <<WrappingSub(cx_i, x), WrappingSub(cy_i, y)>> >>

\* the 8 symmetric points of draw_circle_optimized, in the order of the array
CirclePoints(cx_i, cy_i, x, y) ==
  << <<WrappingAdd(cx_i, x), WrappingAdd(cy_i, y)>>,
     <<WrappingSub(cx_i, x), WrappingAdd(cy_i, y)>>,
     <<WrappingAdd(cx_i, x), WrappingSub(cy_i, y)>>,
     <<WrappingSub(cx_i, x), WrappingSub(cy_i, y)>>,
     <<WrappingAdd(cx_i, y), WrappingAdd(cy_i, x)>>,
     <<WrappingSub(cx_i, y), WrappingAdd(cy_i, x)>>,
     <<WrappingAdd(cx_i, y), WrappingSub(cy_i, x)>>,
     <<WrappingSub(cx_i, y), WrappingSub(cy_i, x)>> >>

\* one of the 16 sums and differences of the points array overflows
CirclePointsOverflow(cx_i, cy_i, x, y) ==
  \E c \in {cx_i, cy_i}, o \in {x, y} :
    AddI32Overflows(c, o) \/ SubI32Overflows(c, o)

\* 4 * v on i32: the wrapped product and whether it overflowed
Times4(v) ==
  LET twice == WrappingAdd(v, v)
  IN [overflow |-> AddI32Overflows(v, v) \/ AddI32Overflows(twice, twice),
      value |-> WrappingAdd(twice, twice)]

\* draw_circle_optimized: while y >= x
RECURSIVE CircleLoop(_, _, _, _, _, _, _, _, _, _)
CircleLoop(buffer, x, y, d, cx_i, cy_i, buffer_width, buffer_height, rgba, overflow_checks) ==
  IF y < x THEN [panic |-> FALSE, buffer |-> buffer]
  ELSE IF CirclePointsOverflow(cx_i, cy_i, x, y) /\ overflow_checks
    THEN [panic |-> TRUE, buffer |-> buffer]
  ELSE LET plotted == PlotPoints(buffer, CirclePoints(cx_i, cy_i, x, y), 1,
                                 buffer_width, buffer_height, rgba, overflow_checks)
           next_x == WrappingAdd(x, 1)
           next_y == IF d > 0 THEN WrappingSub(y, 1) ELSE y
           term == IF d > 0 THEN Times4(WrappingSub(next_x, next_y))
                   ELSE Times4(next_x)
           plus == IF d > 0 THEN 10 ELSE 6
           next_d == WrappingAdd(d, WrappingAdd(term.value, plus))
           overflow ==
             \/ AddI32Overflows(x, 1)
             \/ d > 0 /\ (SubI32Overflows(y, 1) \/ SubI32Overflows(next_x, next_y))
             \/ term.overflow
             \/ AddI32Overflows(term.value, plus)
             \/ AddI32Overflows(d, WrappingAdd(term.value, plus))
       IN IF plotted.panic THEN plotted
          ELSE IF overflow /\ overflow_checks
            THEN [panic |-> TRUE, buffer |-> plotted.buffer]
          ELSE CircleLoop(plotted.buffer, next_x, next_y, next_d, cx_i, cy_i,
                          buffer_width, buffer_height, rgba, overflow_checks)

\* draw_circle_optimized(buffer, cx, cy, radius, buffer_width, buffer_height,
\* color), and the same loop in lib.rs draw_circle
DrawCircleOptimized(buffer, cx, cy, radius, buffer_width, buffer_height, rgba, overflow_checks) ==
  LET twice == WrappingAdd(radius, radius)
  IN IF (AddI32Overflows(radius, radius) \/ SubI32Overflows(3, twice)) /\ overflow_checks
       THEN [panic |-> TRUE, buffer |-> buffer]
       ELSE CircleLoop(buffer, 0, radius, WrappingSub(3, twice), cx, cy,
                       buffer_width, buffer_height, rgba, overflow_checks)

\* ------------------------------------------------- window.rs: WindowState
WNotInitialized == Err("GenericFailure", "Window not initialized")

\* WindowState::new
NewWindowState ==
  [pixels |-> None, window |-> None, width |-> 0, height |-> 0,
   event_callback |-> None, render_when_occluded |-> TRUE, occluded |-> FALSE]


\* create_overlay_window: the WindowAttributes the window is created with
CreateWindowAttributes(config) ==
  LET width == UnwrapOr(config.width, 800)
      height == UnwrapOr(config.height, 600)
      always_on_top == UnwrapOr(config.always_on_top, TRUE)
  IN [title |-> UnwrapOr(config.title, "Overlay NAPI"),
      transparent |-> UnwrapOr(config.transparent, TRUE),
      decorations |-> UnwrapOr(config.decorations, FALSE),
      resizable |-> UnwrapOr(config.resizable, TRUE),
      inner_size |-> <<width, height>>,
      level |-> IF always_on_top THEN "AlwaysOnTop" ELSE "Normal",
      position |-> IF config.x # None /\ config.y # None
                     THEN [x |-> config.x.v, y |-> config.y.v] ELSE PlatformDefault,
      fullscreen |-> UnwrapOr(config.fullscreen, FALSE),
      maximized |-> UnwrapOr(config.maximized, FALSE),
      minimized |-> FALSE,
      visible |-> ~UnwrapOr(config.minimized, FALSE),
      cursor_visible |-> TRUE,
      hittest |-> TRUE,
      redraw |-> FALSE]

\* create_overlay_window: Pixels::new(window_size.width, window_size.height, ..)
CreatePixels(window) == ZeroFrame(window.inner_size[1] * window.inner_size[2] * 4)

\* pixels.resize_buffer: the byte vector is truncated or extended with zeros
ResizeFrame(frame, n) == [i \in 1..n |-> IF i <= Len(frame) THEN frame[i] ELSE 0]

\* &img_data[src_idx..src_idx + 4]: a slice that ends past the data panics
SliceRead(data, index) ==
  IF index + 4 > Len(data) THEN [panic |-> TRUE, bytes |-> <<>>]
  ELSE [panic |-> FALSE, bytes |-> SubSeq(data, index + 1, index + 4)]

\* FrameController::draw_image with a row that runs on past the frame's width
RECURSIVE BlitRow_Wrapped(_, _, _, _, _, _, _, _)
BlitRow_Wrapped(frame, iy, ix, x, py, image, frame_width, overflow_checks) ==
  IF ix >= image.width THEN [panic |-> FALSE, frame |-> frame]
  ELSE LET src_idx == ByteIndex(iy, image.width, ix)
           dst_idx == ByteIndex(py, frame_width, x + ix)
           copy == /\ InBuffer(src_idx.index, Len(image.data))
                   /\ InBuffer(dst_idx.index, Len(frame))
           src == IF copy THEN SliceRead(image.data, src_idx.index)
                  ELSE [panic |-> FALSE, bytes |-> <<>>]
           dst == IF copy /\ ~src.panic THEN SliceWrite(frame, dst_idx.index, src.bytes)
                  ELSE [panic |-> FALSE, buffer |-> frame]
       IN IF (src_idx.overflow \/ dst_idx.overflow) /\ overflow_checks
            THEN [panic |-> TRUE, frame |-> frame]
          ELSE IF src.panic \/ dst.panic THEN [panic |-> TRUE, frame |-> frame]
          ELSE BlitRow_Wrapped(dst.buffer, iy, ix + 1, x, py, image, frame_width,
                       overflow_checks)

\* FrameController::draw_image: for ix in 0..img_width; src_idx and dst_idx
\* are computed in usize
RECURSIVE BlitRow(_, _, _, _, _, _, _, _)
BlitRow(frame, iy, ix, x, py, image, frame_width, overflow_checks) ==
  IF ix >= image.width \/ x + ix >= frame_width THEN [panic |-> FALSE, frame |-> frame]
  ELSE LET src_idx == ByteIndex(iy, image.width, ix)
           dst_idx == ByteIndex(py, frame_width, x + ix)
           copy == /\ InBuffer(src_idx.index, Len(image.data))
                   /\ InBuffer(dst_idx.index, Len(frame))
           src == IF copy THEN SliceRead(image.data, src_idx.index)
                  ELSE [panic |-> FALSE, bytes |-> <<>>]
           dst == IF copy /\ ~src.panic THEN SliceWrite(frame, dst_idx.index, src.bytes)
                  ELSE [panic |-> FALSE, buffer |-> frame]
       IN IF (src_idx.overflow \/ dst_idx.overflow) /\ overflow_checks
            THEN [panic |-> TRUE, frame |-> frame]
          ELSE IF src.panic \/ dst.panic THEN [panic |-> TRUE, frame |-> frame]
          ELSE BlitRow(dst.buffer, iy, ix + 1, x, py, image, frame_width,
                       overflow_checks)

\* FrameController::draw_image: for iy in 0..img_height; overflow_checks is
\* the build
RECURSIVE BlitRows(_, _, _, _, _, _, _, _)
BlitRows(frame, iy, x, y, image, frame_width, frame_height, overflow_checks) ==
  IF iy >= image.height \/ y + iy >= frame_height THEN [panic |-> FALSE, frame |-> frame]
  ELSE LET row == BlitRow(frame, iy, 0, x, y + iy, image, frame_width, overflow_checks)
       IN IF row.panic THEN row
          ELSE BlitRows(row.frame, iy + 1, x, y, image, frame_width, frame_height,
                        overflow_checks)

\* --------------------------------------------- window.rs: the controllers
CtlThreads == {"t1", "t2"}
WConfig(width, height) ==
  [width |-> width, height |-> height, x |-> None, y |-> None, title |-> None,
   always_on_top |-> None, transparent |-> None, decorations |-> None,
   resizable |-> None, fullscreen |-> None, minimized |-> None,
   maximized |-> None, render_when_occluded |-> None]
WConfigs == {WConfig(Some(1), Some(1)), WConfig(Some(2), Some(1))}
WSizes == {<<0, 1>>, <<1, 1>>, <<2, 1>>}
WBuffers == {[i \in 1..4 |-> 7], [i \in 1..8 |-> 7], [i \in 1..3 |-> 7]}
WRects == {<<0, 0, 1, 1>>, <<1, 0, 5, 5>>}
WImages == {[data |-> <<9, 9, 9, 9>>, width |-> 1, height |-> 1]}
WImageAt == {<<0, 0>>, <<1, 0>>}

WInit ==
  /\ window_state = NewWindowState
  /\ state_lock = "free"
  /\ ctl_pc = [t \in CtlThreads |-> "idle"]
  /\ ctl_local = [t \in CtlThreads |-> None]
  /\ w_last = [op |-> "none", args |-> <<>>, created |-> FALSE, frame_len |-> -1,
               result |-> Pending, value |-> None, state_changed |-> FALSE]
  /\ w_calls = 0
  /\ disp_pc = "idle"
  /\ disp_event = None
  /\ exit_requested = FALSE
  /\ callbacks = <<>>
  /\ w_events = 0
  /\ w_presented = None

DispVars == <<disp_pc, disp_event, exit_requested, callbacks, w_events>>
CtlVars == <<ctl_pc, ctl_local>>

Created(st) == st.window # None \/ st.pixels # None
FrameLen(st) == IF st.pixels # None THEN Len(st.pixels) ELSE -1

\* a controller operation runs from state.lock() to the release of its guard
WReady ==
  /\ state_lock = "free"
  /\ w_calls < MaxCalls
  /\ \E t \in CtlThreads : ctl_pc[t] = "idle"

WReturn(op, args, result, value) ==
  /\ w_last' = [op |-> op, args |-> args, created |-> Created(window_state),
                frame_len |-> FrameLen(window_state),
                result |-> result, value |-> value,
                state_changed |-> window_state' # window_state]
  /\ w_calls' = w_calls + 1

\* the frame operations with no redraw requested
RequestRedraw_Dropped(st) == st

\* window.request_redraw() when state.window is Some
RequestRedraw(st) ==
  IF st.window # None THEN [st EXCEPT !.window.redraw = TRUE] ELSE st

\* the state with the created surface stored: window and pixels are set
\* together and width and height take the surface's size
StoredSurface(st, config) ==
  LET window == CreateWindowAttributes(config)
  IN [st EXCEPT
        !.window = window,
        !.pixels = CreatePixels(window),
        !.width = window.inner_size[1],
        !.height = window.inner_size[2],
        !.render_when_occluded = UnwrapOr(config.render_when_occluded, TRUE)]

\* the surface is created and stored
WCreate ==
  \E config \in WConfigs, platform_ok \in BOOLEAN :
    /\ state_lock = "free"
    /\ window_state.window = None
    /\ window_state' =
         IF platform_ok THEN StoredSurface(window_state, config) ELSE window_state
    /\ UNCHANGED <<state_lock, CtlVars, w_last, w_calls, DispVars, w_presented,
                   ovars, fvars>>

\* WindowController::set_event_callback
WSetEventCallback ==
  /\ WReady
  /\ window_state' = [window_state EXCEPT !.event_callback = Some("callback")]
  /\ WReturn("set_event_callback", <<>>, Ok, None)
  /\ UNCHANGED <<state_lock, CtlVars, DispVars, w_presented, ovars, fvars>>

\* the WindowController operations that only act on state.window
WindowOp(op, args, window, value) ==
  /\ WReady
  /\ IF window_state.window # None
       THEN /\ window_state' = [window_state EXCEPT !.window = window]
            /\ WReturn(op, args, Ok, value)
       ELSE /\ window_state' = window_state
            /\ WReturn(op, args, WNotInitialized, None)
  /\ UNCHANGED <<state_lock, CtlVars, DispVars, w_presented, ovars, fvars>>

Win == window_state.window

\* WindowController::show
WShow == WindowOp("show", <<>>, [Win EXCEPT !.visible = TRUE], None)

\* WindowController::hide
WHide == WindowOp("hide", <<>>, [Win EXCEPT !.visible = FALSE], None)

\* WindowController::minimize
WMinimize == WindowOp("minimize", <<>>, [Win EXCEPT !.minimized = TRUE], None)

\* WindowController::maximize
WMaximize == WindowOp("maximize", <<>>, [Win EXCEPT !.maximized = TRUE], None)

\* WindowController::restore
WRestore ==
  WindowOp("restore", <<>>, [Win EXCEPT !.minimized = FALSE, !.maximized = FALSE], None)

\* WindowController::set_fullscreen
WSetFullscreen ==
  \E fullscreen \in BOOLEAN :
    WindowOp("set_fullscreen", <<fullscreen>>, [Win EXCEPT !.fullscreen = fullscreen], None)

\* WindowController::is_fullscreen
WIsFullscreen ==
  WindowOp("is_fullscreen", <<>>, Win, IF Win # None THEN Win.fullscreen ELSE None)

\* WindowController::set_position
WSetPosition ==
  \E p \in OPositions :
    WindowOp("set_position", <<p.x, p.y>>, [Win EXCEPT !.position = p], None)

\* WindowController::get_position; outer_position() may fail on the platform
WGetPosition ==
  \E platform_ok \in BOOLEAN :
    /\ WReady
    /\ window_state' = window_state
    /\ IF Win # None
         THEN IF platform_ok
                THEN WReturn("get_position", <<>>, Ok, Win.position)
                ELSE WReturn("get_position", <<>>,
                             Err("GenericFailure", "Failed to get position"), None)
         ELSE WReturn("get_position", <<>>, WNotInitialized, None)
    /\ UNCHANGED <<state_lock, CtlVars, DispVars, w_presented, ovars, fvars>>

\* pixels.resize_buffer(width, height) on the stored surface, its result dropped
ResizeBufferIgnoringError(frame, width, height) ==
  IF ResizeBufferFails(width, height) THEN frame
  ELSE ResizeFrame(frame, width * height * 4)

\* WindowController::set_size.  request_inner_size is applied at once or
\* handed to the display system, which reports the size later
WSetSize ==
  \E s \in WSizes, applied \in BOOLEAN :
    /\ WReady
    /\ IF window_state.window # None
         THEN /\ window_state' =
                   [window_state EXCEPT
                      !.window.inner_size = IF applied THEN s ELSE @,
                      !.width = s[1],
                      !.height = s[2],
                      !.pixels = IF window_state.pixels # None
                                   THEN ResizeBufferIgnoringError(@, s[1], s[2])
                                   ELSE @]
              /\ WReturn("set_size", s, Ok, None)
         ELSE /\ window_state' = window_state
              /\ WReturn("set_size", s, WNotInitialized, None)
    /\ UNCHANGED <<state_lock, CtlVars, DispVars, w_presented, ovars, fvars>>

\* WindowController::get_size
WGetSize ==
  WindowOp("get_size", <<>>, Win, IF Win # None THEN Win.inner_size ELSE None)

\* WindowController::set_title
WSetTitle ==
  \E title \in OTitles :
    WindowOp("set_title", <<title>>, [Win EXCEPT !.title = title], None)

\* WindowController::set_window_level
WSetWindowLevel ==
  \E level \in {"Normal", "AlwaysOnTop", "AlwaysOnBottom"} :
    WindowOp("set_window_level", <<level>>, [Win EXCEPT !.level = level], None)

\* WindowController::is_visible: window.is_visible().unwrap_or(false); the
\* platform reports the visibility or cannot tell (None)
WIsVisible ==
  \E reported \in (IF Win # None THEN {Some(Win.visible), None} ELSE {None}) :
    WindowOp("is_visible", <<>>, Win, UnwrapOr(reported, FALSE))

\* WindowController::request_redraw
WRequestRedraw ==
  WindowOp("request_redraw", <<>>, [Win EXCEPT !.redraw = TRUE], None)

\* WindowController::set_cursor_visible
WSetCursorVisible ==
  \E visible \in BOOLEAN :
    WindowOp("set_cursor_visible", <<visible>>,
             [Win EXCEPT !.cursor_visible = visible], None)

\* WindowController::set_ignore_mouse_events; set_cursor_hittest may fail
WSetIgnoreMouseEvents ==
  \E ignore \in BOOLEAN, platform_ok \in BOOLEAN :
    /\ WReady
    /\ IF Win # None
         THEN IF platform_ok
                THEN /\ window_state' = [window_state EXCEPT !.window.hittest = ~ignore]
                     /\ WReturn("set_ignore_mouse_events", <<ignore>>, Ok, None)
                ELSE /\ window_state' = window_state
                     /\ WReturn("set_ignore_mouse_events", <<ignore>>,
                                Err("GenericFailure", "Failed to set hittest"), None)
         ELSE /\ window_state' = window_state
              /\ WReturn("set_ignore_mouse_events", <<ignore>>, WNotInitialized, None)
    /\ UNCHANGED <<state_lock, CtlVars, DispVars, w_presented, ovars, fvars>>

\* WindowController::set_render_when_occluded
WSetRenderWhenOccluded ==
  \E render \in BOOLEAN :
    /\ WReady
    /\ window_state' = [window_state EXCEPT !.render_when_occluded = render]
    /\ WReturn("set_render_when_occluded", <<render>>, Ok, None)
    /\ UNCHANGED <<state_lock, CtlVars, DispVars, w_presented, ovars, fvars>>

\* WindowController::is_occluded
WIsOccluded ==
  /\ WReady
  /\ window_state' = window_state
  /\ WReturn("is_occluded", <<>>, Ok, window_state.occluded)
  /\ UNCHANGED <<state_lock, CtlVars, DispVars, w_presented, ovars, fvars>>

\* ---------------------------------------- window.rs: the FrameController
WColors == {<<255, 0, 0, 255>>}

\* an operation that needs state.pixels and then requests a redraw
FrameOp(op, args, frame) ==
  /\ WReady
  /\ IF window_state.pixels # None
       THEN /\ window_state' = RequestRedraw([window_state EXCEPT !.pixels = frame])
            /\ WReturn(op, args, Ok, None)
       ELSE /\ window_state' = window_state
            /\ WReturn(op, args, WNotInitialized, None)
  /\ UNCHANGED <<state_lock, CtlVars, DispVars, w_presented, ovars, fvars>>

\* FrameController::update_frame up to drop(state): the length check under the
\* first guard; on equal lengths the call goes on to take the lock again
UpdateFrameCheck(t) ==
  \E buffer_data \in WBuffers :
    /\ ctl_pc[t] = "idle"
    /\ state_lock = "free"
    /\ w_calls < MaxCalls
    /\ window_state' = window_state
    /\ IF window_state.pixels # None
         THEN IF Len(buffer_data) # Len(window_state.pixels)
                THEN /\ WReturn("update_frame", <<buffer_data>>,
                                Err("GenericFailure", "Buffer size mismatch"), None)
                     /\ UNCHANGED CtlVars
                ELSE /\ WReturn("update_frame", <<buffer_data>>, Pending, None)
                     /\ ctl_pc' = [ctl_pc EXCEPT ![t] = "copy"]
                     /\ ctl_local' = [ctl_local EXCEPT ![t] = buffer_data]
         ELSE /\ WReturn("update_frame", <<buffer_data>>, WNotInitialized, None)
              /\ UNCHANGED CtlVars
    /\ UNCHANGED <<state_lock, DispVars, w_presented, ovars, fvars>>

\* FrameController::update_frame from the second lock(): copy_from_slice
\* panics when the frame no longer has the buffer's length, and the panic
\* poisons the mutex
UpdateFrameCopy(t) ==
  /\ ctl_pc[t] = "copy"
  /\ state_lock = "free"
  /\ LET buffer_data == ctl_local[t]
         fits == Len(buffer_data) = Len(window_state.pixels)
     IN /\ window_state' =
             IF fits THEN RequestRedraw([window_state EXCEPT !.pixels = buffer_data])
             ELSE window_state
        /\ state_lock' = IF fits THEN "free" ELSE "poisoned"
        /\ ctl_pc' = [ctl_pc EXCEPT ![t] = IF fits THEN "idle" ELSE "panicked"]
        /\ ctl_local' = [ctl_local EXCEPT ![t] = None]
        /\ w_last' = [op |-> "update_frame", args |-> <<buffer_data>>,
                      created |-> TRUE, frame_len |-> Len(window_state.pixels),
                      result |-> IF fits THEN Ok ELSE Panicked, value |-> None,
                      state_changed |-> window_state' # window_state]
  /\ UNCHANGED <<w_calls, DispVars, w_presented, ovars, fvars>>

\* FrameController::get_frame_size
WGetFrameSize ==
  /\ WReady
  /\ window_state' = window_state
  /\ WReturn("get_frame_size", <<>>, Ok, <<window_state.width, window_state.height>>)
  /\ UNCHANGED <<state_lock, CtlVars, DispVars, w_presented, ovars, fvars>>

\* FrameController::clear_frame
WClearFrame ==
  \E color \in WColors :
    FrameOp("clear_frame", <<color>>,
            IF window_state.pixels # None
              THEN ClearBufferOptimized(window_state.pixels, color) ELSE None)

\* FrameController::draw_rectangle; a panic inside draw_rectangle_optimized
\* unwinds with the guard held
WDrawRectangle ==
  \E r \in WRects, color \in WColors, overflow_checks \in BOOLEAN :
    /\ WReady
    /\ IF window_state.pixels # None
         THEN LET drawn == DrawRectangleOptimized(window_state.pixels,
                             r[1], r[2], r[3], r[4],
                             window_state.width, window_state.height, color,
                             overflow_checks)
              IN IF drawn.panic
                   THEN /\ window_state' = [window_state EXCEPT !.pixels = drawn.frame]
                        /\ state_lock' = "poisoned"
                        /\ WReturn("draw_rectangle", r, Panicked, None)
                   ELSE /\ window_state' =
                             RequestRedraw([window_state EXCEPT !.pixels = drawn.frame])
                        /\ state_lock' = state_lock
                        /\ WReturn("draw_rectangle", r, Ok, None)
         ELSE /\ window_state' = window_state
              /\ state_lock' = state_lock
              /\ WReturn("draw_rectangle", r, WNotInitialized, None)
    /\ UNCHANGED <<CtlVars, DispVars, w_presented, ovars, fvars>>

\* FrameController::draw_image; a panic inside the blit unwinds with the
\* guard held
WDrawImage ==
  \E at \in WImageAt, image \in WImages, overflow_checks \in BOOLEAN :
    /\ WReady
    /\ IF window_state.pixels # None
         THEN LET drawn == BlitRows(window_state.pixels, 0, at[1], at[2], image,
                                    window_state.width, window_state.height,
                                    overflow_checks)
              IN IF drawn.panic
                   THEN /\ window_state' = [window_state EXCEPT !.pixels = drawn.frame]
                        /\ state_lock' = "poisoned"
                        /\ WReturn("draw_image", <<at[1], at[2], image>>, Panicked, None)
                   ELSE /\ window_state' =
                             RequestRedraw([window_state EXCEPT !.pixels = drawn.frame])
                        /\ state_lock' = state_lock
                        /\ WReturn("draw_image", <<at[1], at[2], image>>, Ok, None)
         ELSE /\ window_state' = window_state
              /\ state_lock' = state_lock
              /\ WReturn("draw_image", <<at[1], at[2], image>>, WNotInitialized, None)
    /\ UNCHANGED <<CtlVars, DispVars, w_presented, ovars, fvars>>

\* FrameController::get_frame_buffer
WGetFrameBuffer ==
  /\ WReady
  /\ window_state' = window_state
  /\ IF window_state.pixels # None
       THEN WReturn("get_frame_buffer", <<>>, Ok, window_state.pixels)
       ELSE WReturn("get_frame_buffer", <<>>, WNotInitialized, None)
  /\ UNCHANGED <<state_lock, CtlVars, DispVars, w_presented, ovars, fvars>>

\* FrameController::render; pixels.render() may fail on the platform
WRender_IgnoresOcclusion ==
  \E platform_ok \in BOOLEAN :
    /\ WReady
    /\ window_state' = window_state
    /\ IF window_state.pixels # None
         THEN IF platform_ok
                THEN /\ WReturn("render", <<>>, Ok, None)
                     /\ w_presented' = window_state.pixels
                ELSE /\ WReturn("render", <<>>,
                                Err("GenericFailure", "Render error"), None)
                     /\ w_presented' = w_presented
         ELSE /\ WReturn("render", <<>>, WNotInitialized, None)
              /\ w_presented' = w_presented
    /\ UNCHANGED <<state_lock, CtlVars, DispVars, ovars, fvars>>

WRender ==
  \E platform_ok \in BOOLEAN :
    /\ WReady
    /\ window_state' = window_state
    /\ LET should_render == ~window_state.occluded \/ window_state.render_when_occluded
       IN IF ~should_render
            THEN /\ WReturn("render", <<>>, Ok, None)
                 /\ w_presented' = w_presented
            ELSE IF window_state.pixels # None
                   THEN IF platform_ok
                          THEN /\ WReturn("render", <<>>, Ok, None)
                               /\ w_presented' = window_state.pixels
                          ELSE /\ WReturn("render", <<>>,
                                          Err("GenericFailure", "Render error"), None)
                               /\ w_presented' = w_presented
                   ELSE /\ WReturn("render", <<>>, WNotInitialized, None)
                        /\ w_presented' = w_presented
    /\ UNCHANGED <<state_lock, CtlVars, DispVars, ovars, fvars>>

\* FrameController::resize with the size assigned before the buffer is resized
WResize_EagerSize(s) ==
  /\ WReady
  /\ window_state' = [window_state EXCEPT !.width = s[1], !.height = s[2]]
  /\ WReturn("resize", s, IF window_state.pixels # None THEN Ok ELSE WNotInitialized, None)
  /\ UNCHANGED <<state_lock, CtlVars, DispVars, w_presented, ovars, fvars>>

\* FrameController::resize with the size assigned before the result of
\* resize_buffer is looked at
WResize_SizeBeforeBuffer(s) ==
  /\ WReady
  /\ IF window_state.pixels # None
       THEN IF ResizeBufferFails(s[1], s[2])
              THEN /\ window_state' = [window_state EXCEPT !.width = s[1], !.height = s[2]]
                   /\ WReturn("resize", s, Err("GenericFailure", "Failed to resize"), None)
              ELSE /\ window_state' =
                        RequestRedraw([window_state EXCEPT
                          !.pixels = ResizeFrame(@, s[1] * s[2] * 4),
                          !.width = s[1],
                          !.height = s[2]])
                   /\ WReturn("resize", s, Ok, None)
       ELSE /\ window_state' = window_state
            /\ WReturn("resize", s, WNotInitialized, None)
  /\ UNCHANGED <<state_lock, CtlVars, DispVars, w_presented, ovars, fvars>>

\* FrameController::resize
WResize(s) ==
  /\ WReady
  /\ IF window_state.pixels # None
       THEN IF ResizeBufferFails(s[1], s[2])
              THEN /\ window_state' = window_state
                   /\ WReturn("resize", s, Err("GenericFailure", "Failed to resize"), None)
              ELSE /\ window_state' =
                        RequestRedraw([window_state EXCEPT
                          !.pixels = ResizeFrame(@, s[1] * s[2] * 4),
                          !.width = s[1],
                          !.height = s[2]])
                   /\ WReturn("resize", s, Ok, None)
       ELSE /\ window_state' = window_state
            /\ WReturn("resize", s, WNotInitialized, None)
  /\ UNCHANGED <<state_lock, CtlVars, DispVars, w_presented, ovars, fvars>>

\* self.state.lock().unwrap() on a poisoned mutex panics in the caller: at the
\* head of its next call, or at the second lock() of update_frame
WLockPoisoned ==
  \E t \in CtlThreads :
    /\ state_lock = "poisoned"
    /\ ctl_pc[t] \in {"idle", "copy", "relock", "fetched", "feeding"}
    /\ ctl_pc' = [ctl_pc EXCEPT ![t] = "panicked"]
    /\ ctl_local' = [ctl_local EXCEPT ![t] = None]
    /\ UNCHANGED <<window_state, state_lock, w_last, w_calls, DispVars,
                   w_presented, ovars, fvars>>

\* ------------------------------- window.rs: OverlayApplication::window_event
WEvents ==
  {[kind |-> "CloseRequested"], [kind |-> "Moved"],
   [kind |-> "CursorEntered"], [kind |-> "CursorLeft"],
   [kind |-> "RedrawRequested"]}
    \cup { [kind |-> "Resized", size |-> s] : s \in WSizes }
    \cup { [kind |-> k, flag |-> b] : k \in {"Focused", "Occluded"}, b \in BOOLEAN }

\* the match with every signal reported as Resized
OverlayEventOf_AlwaysResized(event) == Some("Resized")

\* the match of window_event: the OverlayEvent an event is reported as
OverlayEventOf(event) ==
  CASE event.kind = "CloseRequested" -> Some("CloseRequested")
    [] event.kind = "Resized" -> Some("Resized")
    [] event.kind = "Moved" -> Some("Moved")
    [] event.kind = "Focused" -> Some(IF event.flag THEN "Focused" ELSE "Blurred")
    [] event.kind = "CursorEntered" -> Some("MouseEnter")
    [] event.kind = "CursorLeft" -> Some("MouseLeave")
    [] event.kind = "Occluded" -> Some(IF event.flag THEN "Minimized" ELSE "Restored")
    [] OTHER -> None

\* window_event: the target window is looked up under its lock; an event for
\* a window that no state holds is dropped.  window_event never reads
\* exit_requested: an event the platform delivers after the close request is
\* handled like any other
DispFind ==
  \E event \in WEvents :
    /\ disp_pc = "idle"
    /\ state_lock = "free"
    /\ w_events < MaxEvents
    /\ w_events' = w_events + 1
    /\ IF window_state.window # None
         THEN /\ disp_pc' = "handle"
              /\ disp_event' = event
         ELSE /\ disp_pc' = "idle"
              /\ disp_event' = None
    /\ UNCHANGED <<window_state, state_lock, CtlVars, w_last, w_calls,
                   exit_requested, callbacks, w_presented, ovars, fvars>>

\* window_event: the match arm of the event.  The RedrawRequested arm drops
\* the error of a pixels.render() that fails: the request is taken and
\* nothing is presented
DispHandle_StateLeft ==
  \E render_ok \in BOOLEAN :
  /\ disp_pc = "handle"
  /\ disp_event.kind \in {"Resized", "Occluded", "RedrawRequested"} => state_lock = "free"
  /\ disp_pc' = "callback"
  /\ exit_requested' = (exit_requested \/ disp_event.kind = "CloseRequested")
  /\ window_state' =
       IF disp_event.kind = "RedrawRequested"
         THEN [window_state EXCEPT !.window.redraw = FALSE]
         ELSE window_state
  /\ w_presented' =
       IF disp_event.kind = "RedrawRequested" /\ window_state.pixels # None /\ render_ok
         THEN window_state.pixels ELSE w_presented
  /\ UNCHANGED <<state_lock, CtlVars, w_last, w_calls, disp_event, callbacks,
                 w_events, ovars, fvars>>

DispHandle ==
  \E render_ok \in BOOLEAN :
  /\ disp_pc = "handle"
  /\ disp_event.kind \in {"Resized", "Occluded", "RedrawRequested"} => state_lock = "free"
  /\ disp_pc' = "callback"
  /\ exit_requested' = (exit_requested \/ disp_event.kind = "CloseRequested")
  /\ window_state' =
       CASE disp_event.kind = "Resized" ->
              [window_state EXCEPT
                 !.width = disp_event.size[1],
                 !.height = disp_event.size[2],
                 !.window.inner_size = disp_event.size,
                 !.pixels = IF window_state.pixels # None
                              THEN ResizeBufferIgnoringError(@, disp_event.size[1],
                                                             disp_event.size[2])
                              ELSE @]
         [] disp_event.kind = "Occluded" ->
              [window_state EXCEPT !.occluded = disp_event.flag]
         [] disp_event.kind = "RedrawRequested" ->
              [window_state EXCEPT !.window.redraw = FALSE]
         [] OTHER -> window_state
  /\ w_presented' =
       IF disp_event.kind = "RedrawRequested" /\ window_state.pixels # None /\ render_ok
         THEN window_state.pixels ELSE w_presented
  /\ UNCHANGED <<state_lock, CtlVars, w_last, w_calls, disp_event, callbacks,
                 w_events, ovars, fvars>>

\* window_event: if let Some(ev) = overlay_event, the callback is called
\* under a new guard; an event with no OverlayEvent ends without a lock()
DispCallback ==
  /\ disp_pc = "callback"
  /\ OverlayEventOf(disp_event) # None => state_lock = "free"
  /\ LET ev == OverlayEventOf(disp_event)
     IN callbacks' = IF ev # None /\ window_state.event_callback # None
                       THEN Append(callbacks, ev.v) ELSE callbacks
  /\ disp_pc' = "idle"
  /\ disp_event' = None
  /\ UNCHANGED <<window_state, state_lock, CtlVars, w_last, w_calls,
                 exit_requested, w_events, w_presented, ovars, fvars>>

\* lock().unwrap() on a poisoned mutex panics in the event loop: in the
\* lookup of the target window, in the arms that lock the state, and before
\* the callback of an event that has an OverlayEvent
DispLockPoisoned ==
  /\ state_lock = "poisoned"
  /\ \/ disp_pc = "idle"
     \/ /\ disp_pc = "handle"
        /\ disp_event.kind \in {"Resized", "Occluded", "RedrawRequested"}
     \/ /\ disp_pc = "callback"
        /\ OverlayEventOf(disp_event) # None
  /\ disp_pc' = "panicked"
  /\ UNCHANGED <<window_state, state_lock, CtlVars, w_last, w_calls, disp_event,
                 exit_requested, callbacks, w_events, w_presented, ovars, fvars>>

\* poll_event_loop: every call builds a new OverlayApplication with
\* exit_requested false.  The events it pumps, on the one platform where it
\* pumps any, are the steps of window_event above, and the value it returns
\* is exit_requested as they leave it
PollEventLoop ==
  /\ disp_pc = "idle"
  /\ exit_requested' = FALSE
  /\ UNCHANGED <<window_state, state_lock, CtlVars, w_last, w_calls, disp_pc,
                 disp_event, callbacks, w_events, w_presented, ovars, fvars>>

\* ---------------------------------------------------- the specifications
\* every WindowController and FrameController operation, before and after
\* the surface is created
WindowInit == WInit /\ OIdle /\ FIdle
WindowNext ==
  \/ WCreate
  \/ WSetEventCallback
  \/ WShow
  \/ WHide
  \/ WMinimize
  \/ WMaximize
  \/ WRestore
  \/ WSetFullscreen
  \/ WIsFullscreen
  \/ WSetPosition
  \/ WGetPosition
  \/ WSetSize
  \/ WGetSize
  \/ WSetTitle
  \/ WSetWindowLevel
  \/ WIsVisible
  \/ WRequestRedraw
  \/ WSetCursorVisible
  \/ WSetIgnoreMouseEvents
  \/ WSetRenderWhenOccluded
  \/ WIsOccluded
  \/ WGetFrameSize
  \/ WClearFrame
  \/ WDrawRectangle
  \/ WDrawImage
  \/ WGetFrameBuffer
  \/ WRender
  \/ \E s \in WSizes : WResize(s)
SpecWindow == WindowInit /\ [][WindowNext]_vars

\* the frame operations of two threads against the event loop
FrameNext ==
  \/ WCreate
  \/ \E t \in CtlThreads : UpdateFrameCheck(t)
  \/ \E t \in CtlThreads : UpdateFrameCopy(t)
  \/ WSetSize
  \/ \E s \in WSizes : WResize(s)
  \/ WClearFrame
  \/ WGetFrameBuffer
  \/ WSetEventCallback
  \/ WLockPoisoned
  \/ DispFind
  \/ DispHandle
  \/ DispCallback
  \/ DispLockPoisoned
SpecFrame == WindowInit /\ [][FrameNext]_vars

\* draw_rectangle_optimized applied to drawn inputs, frames shorter than
\* frame_width * frame_height * 4 bytes among them
RectFrameLens == {0, 3, 4, 8, 16}
RectCoords == {0, 1, 2147483645, 2147483647}
RectExtents == {0, 1, 2, 2147483646}
RectFrameDims == {0, 1, 2}
\* the rectangles whose right edge x + width the model's integers can hold
RectInputs ==
  {in \in [fn : {"draw_rectangle_optimized"},
           frame : {ZeroFrame(n) : n \in RectFrameLens},
           x : RectCoords, y : {0, 1},
           width : RectExtents, height : {0, 1, 2},
           frame_width : RectFrameDims, frame_height : RectFrameDims,
           overflow_checks : BOOLEAN] :
     in.x <= 2147483647 - in.width}

RectInit ==
  /\ fn_in \in RectInputs
  /\ fn_out = None
  /\ OIdle
  /\ WIdle

\* draw_rectangle_optimized(frame, params, &color)
RectDraw ==
  /\ fn_out = None
  /\ fn_out' = DrawRectangleOptimized(fn_in.frame, fn_in.x, fn_in.y, fn_in.width,
                                      fn_in.height, fn_in.frame_width,
                                      fn_in.frame_height, Red, fn_in.overflow_checks)
  /\ UNCHANGED <<fn_in, ovars, wvars>>

RectNext == RectDraw
SpecRect == RectInit /\ [][RectNext]_vars

\* ------------------------------------------------ claims on SpecFrame
(* C1: FrameController::update_frame checks the length and copies in one
   atomic step: whatever resize, set_size or Resized event is interleaved,
   the copy is only ever performed on a frame that has the buffer's length. *)
C1_CopyOnCheckedLength ==
  (w_last.op = "update_frame" /\ w_last.result \in {Ok, Panicked}) =>
      w_last.frame_len = Len(w_last.args[1])

(* C2: an update_frame whose buffer length differs from the frame's length
   returns an invalid-argument error and leaves the frame unchanged. *)
C2_MismatchIsInvalidArgument ==
  (/\ w_last.op = "update_frame"
   /\ w_last.created
   /\ w_last.result.status \notin {"Pending", "Panic"}
   /\ Len(w_last.args[1]) # w_last.frame_len) =>
      /\ w_last.result.status = "InvalidArg"
      /\ ~w_last.state_changed

\* the part of C2 that FrameController::update_frame keeps: a mismatching
\* buffer is rejected with an error and the state is left as it was
C2_MismatchRejected ==
  (/\ w_last.op = "update_frame"
   /\ w_last.created
   /\ w_last.result.status \notin {"Pending", "Panic"}
   /\ Len(w_last.args[1]) # w_last.frame_len) =>
      /\ w_last.result = Err("GenericFailure", "Buffer size mismatch")
      /\ ~w_last.state_changed

(* C9: whenever the lock is free and the surface exists, the frame holds
   exactly width * height * 4 bytes, after any set_size, resize or Resized
   event, a failing resize included. *)
C9_FrameLenMatchesSize ==
  (state_lock = "free" /\ window_state.pixels # None) =>
      Len(window_state.pixels) = window_state.width * window_state.height * 4

\* ----------------------------------------------- claims on SpecWindow
WSetters == {"set_position", "set_size", "set_title", "set_window_level", "update_frame"}

(* C4: before the surface exists every setter (set_position, set_size,
   set_title, set_window_level, update_frame) returns success, its value
   recorded in the pending configuration, instead of failing. *)
C4_ControllerSettersSucceed ==
  (w_last.op \in WSetters /\ ~w_last.created) => w_last.result = Ok

C6Ops ==
  {"show", "hide", "minimize", "maximize", "restore", "is_fullscreen",
   "get_position", "get_size", "is_visible", "request_redraw",
   "set_cursor_visible", "clear_frame", "draw_rectangle", "draw_image",
   "get_frame_buffer", "resize"}

(* C6: while no window or surface exists, each of show, hide, minimize,
   maximize, restore, is_fullscreen, get_position, get_size, is_visible,
   request_redraw, set_cursor_visible, clear_frame, draw_rectangle,
   draw_image, get_frame_buffer and resize returns the same not-initialized
   error and leaves the shared state unchanged. *)
C6_NotInitializedUniform ==
  (w_last.op \in C6Ops /\ ~w_last.created) =>
      /\ w_last.result = WNotInitialized
      /\ ~w_last.state_changed

C6_Witness ==
  /\ w_last.op = "resize"
  /\ w_last.args = <<2, 1>>
  /\ ~w_last.created
  /\ w_last.result = WNotInitialized
  /\ w_calls = 2

\* ------------------------------------------------- claims on SpecRect
(* C10: draw_rectangle_optimized never reads or writes outside the buffer,
   whatever its inputs, a buffer shorter than frame_width * frame_height * 4
   included: an out-of-range index is skipped, it is not a panic. *)
C10_RectangleNeverPanics ==
  fn_out # None => ~fn_out.panic

\* on a frame of at least frame_width * frame_height * 4 bytes the rectangle
\* is clipped and nothing panics
C10_FullFrameNeverPanics ==
  (fn_out # None /\ Len(fn_in.frame) >= fn_in.frame_width * fn_in.frame_height * 4) =>
      ~fn_out.panic

\* --------------------------- draw_line, draw_circle and the draw_image blit
\* applied to drawn inputs: full buffers, buffers shorter than the declared
\* size, points outside the declared size, and declared sizes whose product
\* does not fit 32 bits.  overflow_checks is the build: with it an integer
\* overflow panics, without it the value wraps
GridW == 4
GridH == 3
Grid(w, h) == ZeroFrame(w * h * 4)

LineInputs ==
  [fn : {"draw_line"}, buffer : {Grid(GridW, GridH)},
   x1 : 0..(GridW - 1), y1 : 0..(GridH - 1), x2 : 0..(GridW - 1), y2 : 0..(GridH - 1),
   buffer_width : {GridW}, buffer_height : {GridH}, overflow_checks : {FALSE}]
  \cup
  [fn : {"draw_line"}, buffer : {Grid(8, 8)},
   x1 : {0}, y1 : {0}, x2 : {5}, y2 : {0, 5},
   buffer_width : {8}, buffer_height : {8}, overflow_checks : BOOLEAN]
  \cup
  [fn : {"draw_line"}, buffer : {ZeroFrame(n) : n \in {0, 3, 4, 10}},
   x1 : {0, 3}, y1 : {0, 2}, x2 : {1, 3}, y2 : {0, 3},
   buffer_width : {2, 3}, buffer_height : {1, 2}, overflow_checks : BOOLEAN]
  \cup
  [fn : {"draw_line"}, buffer : {ZeroFrame(4)},
   x1 : {0}, y1 : {65536}, x2 : {0}, y2 : {65536},
   buffer_width : {65536}, buffer_height : {65537}, overflow_checks : BOOLEAN]

CircleInputs ==
  [fn : {"draw_circle"}, buffer : {Grid(7, 7)},
   cx : {3}, cy : {3}, radius : 0..3,
   buffer_width : {7}, buffer_height : {7}, overflow_checks : BOOLEAN]
  \cup
  [fn : {"draw_circle"}, buffer : {Grid(9, 9)},
   cx : {4}, cy : {4}, radius : {0, 4},
   buffer_width : {9}, buffer_height : {9}, overflow_checks : {FALSE}]
  \cup
  [fn : {"draw_circle"}, buffer : {ZeroFrame(n) : n \in {0, 3, 4, 10, 16}},
   cx : {0, 1, 3}, cy : {0, 2}, radius : {0, 1, 2},
   buffer_width : {2, 3}, buffer_height : {1, 2}, overflow_checks : BOOLEAN]
  \cup
  [fn : {"draw_circle"}, buffer : {ZeroFrame(4)},
   cx : {0, I32Max}, cy : {0, 65536}, radius : {0, 1},
   buffer_width : {1, 65536}, buffer_height : {65537}, overflow_checks : BOOLEAN]

BlitInputs ==
  [fn : {"draw_image"}, buffer : {ZeroFrame(n) : n \in {0, 4, 7, 16}},
   x : 0..2, y : 0..2,
   image : [data : {[i \in 1..n |-> 9] : n \in {0, 3, 4, 16}},
            width : {1, 2}, height : {1, 2}],
   buffer_width : {1, 2}, buffer_height : {1, 2}, overflow_checks : BOOLEAN]
  \cup
  \* frames and images of exactly their declared size, every byte distinct
  UNION {[fn : {"draw_image"}, buffer : {[i \in 1..(fw * fh * 4) |-> i]},
          x : 0..fw, y : 0..fh,
          image : UNION {[data : {[i \in 1..(iw * ih * 4) |-> 100 + i]},
                          width : {iw}, height : {ih}] : iw \in 1..3, ih \in 1..2},
          buffer_width : {fw}, buffer_height : {fh},
          overflow_checks : BOOLEAN] : fw \in 2..3, fh \in 1..2}

ShapesInit ==
  /\ fn_in \in LineInputs \cup CircleInputs \cup BlitInputs
  /\ fn_out = None
  /\ OIdle
  /\ WIdle

\* draw_line_optimized(&mut new_data, params, &color)
LineDraw ==
  /\ fn_out = None
  /\ fn_in.fn = "draw_line"
  /\ fn_out' = DrawLineOptimized(fn_in.buffer, fn_in.x1, fn_in.y1, fn_in.x2, fn_in.y2,
                                 fn_in.buffer_width, fn_in.buffer_height, Red,
                                 fn_in.overflow_checks)
  /\ UNCHANGED <<fn_in, ovars, wvars>>

\* draw_circle_optimized(&mut new_data, cx, cy, radius, width, height, &color)
CircleDraw ==
  /\ fn_out = None
  /\ fn_in.fn = "draw_circle"
  /\ fn_out' = DrawCircleOptimized(fn_in.buffer, fn_in.cx, fn_in.cy, fn_in.radius,
                                   fn_in.buffer_width, fn_in.buffer_height, Red,
                                   fn_in.overflow_checks)
  /\ UNCHANGED <<fn_in, ovars, wvars>>

\* the blit of FrameController::draw_image on a frame and its declared size
BlitDraw ==
  /\ fn_out = None
  /\ fn_in.fn = "draw_image"
  /\ LET drawn == BlitRows(fn_in.buffer, 0, fn_in.x, fn_in.y, fn_in.image,
                           fn_in.buffer_width, fn_in.buffer_height,
                           fn_in.overflow_checks)
     IN fn_out' = [panic |-> drawn.panic, buffer |-> drawn.frame]
  /\ UNCHANGED <<fn_in, ovars, wvars>>

ShapesNext ==
  \/ LineDraw
  \/ CircleDraw
  \/ BlitDraw
SpecShapes == ShapesInit /\ [][ShapesNext]_vars

\* ------------------------------------------------ claims on SpecShapes
\* the pixels (column, row) of the declared grid whose bytes differ
ChangedPixels(before, after, width) ==
  { <<((i - 1) \div 4) % width, ((i - 1) \div 4) \div width>> :
      i \in {k \in 1..Len(before) : after[k] # before[k]} }

\* the rectangle a shape lies in, in true integers
ShapeBox(in) ==
  CASE in.fn = "draw_line" ->
         [x0 |-> Min(in.x1, in.x2), x1 |-> Max(in.x1, in.x2),
          y0 |-> Min(in.y1, in.y2), y1 |-> Max(in.y1, in.y2)]
    [] in.fn = "draw_circle" ->
         [x0 |-> in.cx - in.radius, x1 |-> in.cx - (-in.radius),
          y0 |-> in.cy - in.radius, y1 |-> in.cy - (-in.radius)]
    [] in.fn = "draw_image" ->
         [x0 |-> in.x, x1 |-> in.x + in.image.width - 1,
          y0 |-> in.y, y1 |-> in.y + in.image.height - 1]

(* C11: draw_line_optimized, draw_circle_optimized and the draw_image blit
   never touch a byte outside the destination (or, for the blit, the source):
   for any coordinates, radius, declared size and buffer length the call
   ends without a panic, the buffer keeps its length, and a point whose
   index is out of range is skipped, never written onto another row. *)
C11_ShapesStayInRange ==
  fn_out # None =>
    /\ ~fn_out.panic
    /\ Len(fn_out.buffer) = Len(fn_in.buffer)
    /\ \A p \in ChangedPixels(fn_in.buffer, fn_out.buffer, fn_in.buffer_width) :
         /\ p[1] < fn_in.buffer_width /\ p[2] < fn_in.buffer_height
         /\ ShapeBox(fn_in).x0 <= p[1] /\ p[1] <= ShapeBox(fn_in).x1
         /\ ShapeBox(fn_in).y0 <= p[2] /\ p[2] <= ShapeBox(fn_in).y1

\* the part of C11 that holds: without an integer overflow in the pixel
\* number, no call panics and every write is inside the buffer and the shape
C11_InRangeWithoutOverflow ==
  (fn_out # None /\ fn_in.buffer_width < 65536
                 /\ (fn_in.fn = "draw_circle" => fn_in.cx < I32Max)) =>
    /\ ~fn_out.panic
    /\ Len(fn_out.buffer) = Len(fn_in.buffer)
    /\ \A p \in ChangedPixels(fn_in.buffer, fn_out.buffer, fn_in.buffer_width) :
         /\ p[1] < fn_in.buffer_width /\ p[2] < fn_in.buffer_height
         /\ ShapeBox(fn_in).x0 <= p[1] /\ p[1] <= ShapeBox(fn_in).x1
         /\ ShapeBox(fn_in).y0 <= p[2] /\ p[2] <= ShapeBox(fn_in).y1

\* ------------------------------------------- claims on draw_rectangle
\* the pixel (column, row) byte i of a frame belongs to
PixelOfByte(i, frame_width) ==
  [px |-> ((i - 1) \div 4) % frame_width, py |-> ((i - 1) \div 4) \div frame_width]

\* the pixels the claim names: x <= px < min(x + w, frame_w) and
\* y <= py < min(y + h, frame_h), the sums saturating
InClippedRect(p, in) ==
  /\ in.x <= p.px /\ p.px < Min(SaturatingAdd(in.x, in.width), in.frame_width)
  /\ in.y <= p.py /\ p.py < Min(SaturatingAdd(in.y, in.height), in.frame_height)

(* C12: Overlay::draw_rectangle on a created surface draws the clipped
   rectangle: the call is never left waiting for the state lock it holds
   itself, and it never panics. *)
C12_OverlayRectangleDrawn ==
  o_last.op = "draw_rectangle" =>
    /\ caller_pc # "relock"
    /\ o_last.result # Panicked

\* the part of C12 that holds: on a frame of exactly frame_width *
\* frame_height * 4 bytes draw_rectangle_optimized sets exactly the pixels of
\* the clipped rectangle and leaves every other byte unchanged
C12_RectangleExact ==
  (fn_out # None /\ Len(fn_in.frame) = fn_in.frame_width * fn_in.frame_height * 4) =>
    /\ ~fn_out.panic
    /\ Len(fn_out.frame) = Len(fn_in.frame)
    /\ \A i \in 1..Len(fn_in.frame) :
         fn_out.frame[i] =
           IF InClippedRect(PixelOfByte(i, fn_in.frame_width), fn_in)
             THEN Red[((i - 1) % 4) + 1]
             ELSE fn_in.frame[i]

\* a rectangle that is clipped on the right has been drawn
C12_ClippedRectangleSeen ==
  /\ fn_out # None
  /\ fn_in.frame_width = 2 /\ fn_in.frame_height = 2 /\ Len(fn_in.frame) = 16
  /\ fn_in.x = 1 /\ fn_in.width = 2147483646 /\ fn_in.height = 1 /\ fn_in.y = 1

\* ------------------------------------------------ buffer.rs / lib.rs: draw_pixel
OutOfBounds == Err("InvalidArg", "Pixel position out of bounds")

\* draw_pixel_safe(buffer, x, y, width, color): index = (y * width + x) as
\* usize * 4 with the sum computed in u32, then the guarded write
DrawPixelSafe(buffer, x, y, width, rgba, overflow_checks) ==
  LET n == PixelNumber(x, y, width)
  IN IF n.overflow /\ overflow_checks
       THEN [panic |-> TRUE, ok |-> FALSE, buffer |-> buffer]
     ELSE IF n.pixel >= 0 /\ n.pixel < I32Max \div 4
                          /\ InBuffer(n.pixel * 4, Len(buffer))
       THEN LET written == SliceWrite(buffer, n.pixel * 4, rgba)
            IN [panic |-> written.panic, ok |-> ~written.panic, buffer |-> written.buffer]
       ELSE [panic |-> FALSE, ok |-> FALSE, buffer |-> buffer]

\* draw_pixel(buffer, x, y, width, color): the drawing is done on a copy; an
\* Err of draw_pixel_safe becomes Status::InvalidArg and the caller keeps its
\* buffer
DrawPixel(buffer, x, y, width, rgba, overflow_checks) ==
  LET drawn == DrawPixelSafe(buffer, x, y, width, rgba, overflow_checks)
  IN IF drawn.panic THEN [panic |-> TRUE, result |-> Panicked, buffer |-> buffer]
     ELSE IF drawn.ok THEN [panic |-> FALSE, result |-> Ok, buffer |-> drawn.buffer]
     ELSE [panic |-> FALSE, result |-> OutOfBounds, buffer |-> buffer]

\* buffers, coordinates and widths: pixels inside, pixels past the end, a
\* buffer that ends inside a pixel, and a row number and a width whose
\* product does not fit 32 bits
PixelBufferLens == {0, 3, 4, 7, 8, 16}
PixelCoords == {0, 1, 2, 3, 65536, I32Max}
\* the columns: the coordinates and u32::MAX, whose bits are those of -1
PixelColumns == PixelCoords \cup {-1}
PixelWidths == {0, 1, 2, 65536}
PixelInputs ==
  [fn : {"draw_pixel"},
   buffer : {ZeroFrame(n) : n \in PixelBufferLens},
   x : PixelColumns, y : PixelCoords, width : PixelWidths,
   overflow_checks : BOOLEAN]

PixelInit ==
  /\ fn_in \in PixelInputs
  /\ fn_out = None
  /\ OIdle
  /\ WIdle

PixelDraw ==
  /\ fn_out = None
  /\ fn_out' = DrawPixel(fn_in.buffer, fn_in.x, fn_in.y, fn_in.width, Red,
                         fn_in.overflow_checks)
  /\ UNCHANGED <<fn_in, ovars, wvars>>

PixelNext == PixelDraw
SpecPixel == PixelInit /\ [][PixelNext]_vars

\* ---------------------------------------------------- claims on SpecPixel
\* (y * width + x) * 4 + 3 < len in true integers, computed without forming
\* the product; a column of 2^31 or more (negative here) is in no buffer
TrueIndexInBuffer(x, y, width, len) ==
  /\ len >= 4
  /\ x >= 0
  /\ LET last == (len - 4) \div 4
     IN /\ x <= last
        /\ y = 0 \/ width <= (last - x) \div y

(* C13: draw_pixel with index = (y * width + x) * 4: when index + 3 is at or
   past the end of the buffer it reports an invalid-argument error and the
   buffer is unmodified; otherwise it succeeds and sets exactly the four
   bytes at index to the colour. *)
C13_PixelWrittenOrRejected ==
  fn_out # None =>
    IF TrueIndexInBuffer(fn_in.x, fn_in.y, fn_in.width, Len(fn_in.buffer))
      THEN /\ fn_out.result = Ok
           /\ fn_out.buffer =
                WriteChunk(fn_in.buffer, (fn_in.y * fn_in.width + fn_in.x) * 4, Red)
      ELSE /\ fn_out.result.status = "InvalidArg"
           /\ fn_out.buffer = fn_in.buffer

\* the part of C13 that holds: the same, when y * width + x fits 32 bits
C13_ContractWithoutOverflow ==
  (fn_out # None /\ ~PixelNumber(fn_in.x, fn_in.y, fn_in.width).overflow) =>
    IF TrueIndexInBuffer(fn_in.x, fn_in.y, fn_in.width, Len(fn_in.buffer))
      THEN /\ fn_out.result = Ok
           /\ fn_out.buffer =
                WriteChunk(fn_in.buffer, (fn_in.y * fn_in.width + fn_in.x) * 4, Red)
      ELSE /\ fn_out.result.status = "InvalidArg"
           /\ fn_out.buffer = fn_in.buffer

\* a pixel that is not the first one has been written
C13_SecondPixelWritten ==
  /\ fn_out # None
  /\ fn_out.result = Ok
  /\ fn_in.y = 1 /\ fn_in.width = 2 /\ fn_in.x = 1

\* ------------------------------------------------ claims on draw_line
\* both endpoints are pixels of a buffer that has its full declared size
LineInBounds(in) ==
  /\ in.fn = "draw_line"
  /\ in.buffer_width < 65536 /\ in.buffer_height < 65536
  /\ Len(in.buffer) = in.buffer_width * in.buffer_height * 4
  /\ in.x1 < in.buffer_width /\ in.x2 < in.buffer_width
  /\ in.y1 < in.buffer_height /\ in.y2 < in.buffer_height

\* the bytes of exactly the pixels in set hold the colour, all others are as
\* they were
ExactlyDrawn(before, after, width, set, rgba) ==
  /\ Len(after) = Len(before)
  /\ \A i \in 1..Len(before) :
       after[i] =
         IF <<((i - 1) \div 4) % width, ((i - 1) \div 4) \div width>> \in set
           THEN rgba[((i - 1) % 4) + 1]
           ELSE before[i]

(* C14: for in-bounds endpoints draw_line sets the start and the end pixel
   and exactly max(|x2-x1|, |y2-y1|) + 1 pixels, consecutive visited points
   differ by at most 1 in each axis, and no other pixel changes; the line
   from (0,0) to (5,0) on an 8x8 buffer sets exactly (0,0)..(5,0). *)
C14_LineExact ==
  (fn_out # None /\ LineInBounds(fn_in)) =>
    LET changed == ChangedPixels(fn_in.buffer, fn_out.buffer, fn_in.buffer_width)
        visited == fn_out.visited
        n == Max(Abs(fn_in.x2 - fn_in.x1), Abs(fn_in.y2 - fn_in.y1)) + 1
    IN /\ ~fn_out.panic
       /\ <<fn_in.x1, fn_in.y1>> \in changed
       /\ <<fn_in.x2, fn_in.y2>> \in changed
       /\ Cardinality(changed) = n
       /\ Len(visited) = n
       /\ visited[1] = <<fn_in.x1, fn_in.y1>>
       /\ visited[n] = <<fn_in.x2, fn_in.y2>>
       /\ \A i \in 1..(n - 1) :
            /\ Abs(visited[i + 1][1] - visited[i][1]) <= 1
            /\ Abs(visited[i + 1][2] - visited[i][2]) <= 1
       /\ changed = {visited[i] : i \in 1..n}
       /\ ExactlyDrawn(fn_in.buffer, fn_out.buffer, fn_in.buffer_width, changed, Red)
       /\ (fn_in.buffer_width = 8 /\ fn_in.x2 = 5 /\ fn_in.y2 = 0) =>
            changed = {<<k, 0>> : k \in 0..5}

\* a line that moves along both axes, from the origin, has been drawn
C14_Witness ==
  /\ fn_out # None
  /\ LineInBounds(fn_in)
  /\ fn_in.x1 = 0 /\ fn_in.y1 = 0 /\ fn_in.x2 = 3 /\ fn_in.y2 = 2
  /\ Len(fn_out.visited) = 4

\* ------------------------------------------------ claims on draw_circle
\* the whole circle lies in a buffer that has its full declared size
CircleInBounds(in) ==
  /\ in.fn = "draw_circle"
  /\ in.buffer_width < 65536 /\ in.buffer_height < 65536
  /\ Len(in.buffer) = in.buffer_width * in.buffer_height * 4
  /\ in.cx < 65536 /\ in.cy < 65536 /\ in.radius < 65536
  /\ in.cx >= in.radius /\ in.cx + in.radius < in.buffer_width
  /\ in.cy >= in.radius /\ in.cy + in.radius < in.buffer_height

\* the images of the point p under the 8 reflections about (cx, cy)
Reflections(p, cx, cy) ==
  LET dx == p[1] - cx
      dy == p[2] - cy
  IN { <<cx + a, cy + b>> : a \in {dx, -dx}, b \in {dy, -dy} } \cup
     { <<cx + b, cy + a>> : a \in {dx, -dx}, b \in {dy, -dy} }

(* C15: draw_circle with radius 0 sets exactly the centre pixel; for every
   radius and centre with the whole circle in bounds the set of changed
   pixels is symmetric under the 8 reflections about the centre, contains
   the four points at distance r on the axes, lies within distance r of the
   centre on each axis, and nothing else changes. *)
C15_CircleSymmetric ==
  (fn_out # None /\ CircleInBounds(fn_in)) =>
    LET changed == ChangedPixels(fn_in.buffer, fn_out.buffer, fn_in.buffer_width)
        cx == fn_in.cx
        cy == fn_in.cy
        r == fn_in.radius
    IN /\ ~fn_out.panic
       /\ r = 0 => changed = {<<cx, cy>>}
       /\ \A p \in changed : Reflections(p, cx, cy) \subseteq changed
       /\ {<<cx + r, cy>>, <<cx - r, cy>>, <<cx, cy + r>>, <<cx, cy - r>>} \subseteq changed
       /\ \A p \in changed : Abs(p[1] - cx) <= r /\ Abs(p[2] - cy) <= r
       /\ ExactlyDrawn(fn_in.buffer, fn_out.buffer, fn_in.buffer_width, changed, Red)

\* a circle of radius 3 with pixels off the axes has been drawn
C15_Witness ==
  /\ fn_out # None
  /\ CircleInBounds(fn_in)
  /\ fn_in.radius = 3
  /\ <<fn_in.cx + 2, fn_in.cy + 2>> \in
       ChangedPixels(fn_in.buffer, fn_out.buffer, fn_in.buffer_width)

\* --------------------------------------- buffer.rs / lib.rs: fill_buffer_color
\* fill_buffer_rgba_optimized (buffer.rs): vec![0u8; len], then every
\* complete chunk of chunks_exact_mut(4) takes r, g, b, a
FillBufferRgbaOptimized(buffer, rgba) ==
  ClearBufferOptimized(ZeroFrame(Len(buffer)), rgba)

\* fill_buffer_rgba_buffer (lib.rs): an empty vector, and r, g, b, a pushed
\* once for every chunk of chunks_exact(4) of the input
RECURSIVE PushChunks(_, _, _)
PushChunks(new_data, chunks, rgba) ==
  IF chunks = 0 THEN new_data
  ELSE PushChunks(new_data \o rgba, chunks - 1, rgba)

FillBufferRgbaBuffer(buffer, rgba) ==
  PushChunks(<<>>, Len(buffer) \div 4, rgba)

\* buffers of whole pixels and buffers that end inside a pixel
FillLens == 0..12
FillColors == {Red, <<0, 0, 0, 0>>, <<1, 2, 3, 4>>}
FillInputs ==
  [fn : {"fill_buffer_rgba_optimized", "fill_buffer_rgba_buffer"},
   buffer : {[i \in 1..n |-> 7] : n \in FillLens},
   rgba : FillColors]

FillInit ==
  /\ fn_in \in FillInputs
  /\ fn_out = None
  /\ OIdle
  /\ WIdle

\* buffer.rs fill_buffer_color
FillOptimized ==
  /\ fn_out = None
  /\ fn_in.fn = "fill_buffer_rgba_optimized"
  /\ fn_out' = [buffer |-> FillBufferRgbaOptimized(fn_in.buffer, fn_in.rgba)]
  /\ UNCHANGED <<fn_in, ovars, wvars>>

\* lib.rs fill_buffer_color
FillPushed ==
  /\ fn_out = None
  /\ fn_in.fn = "fill_buffer_rgba_buffer"
  /\ fn_out' = [buffer |-> FillBufferRgbaBuffer(fn_in.buffer, fn_in.rgba)]
  /\ UNCHANGED <<fn_in, ovars, wvars>>

FillNext ==
  \/ FillOptimized
  \/ FillPushed
SpecFill == FillInit /\ [][FillNext]_vars

\* ----------------------------------------------------- claims on SpecFill
\* every complete 4-byte group of buffer is r, g, b, a
EveryGroupIs(buffer, rgba) ==
  \A g \in 0..((Len(buffer) \div 4) - 1) :
    \A k \in 1..4 : buffer[4 * g + k] = rgba[k]

(* C16: filling a buffer of len bytes returns a new buffer of exactly len
   bytes in which every 4-byte group is the colour's r, g, b, a; the input
   length is never truncated. *)
C16_FillKeepsLength ==
  fn_out # None =>
    /\ Len(fn_out.buffer) = Len(fn_in.buffer)
    /\ EveryGroupIs(fn_out.buffer, fn_in.rgba)

\* the part of C16 that holds: fill_buffer_rgba_optimized keeps the length,
\* and both functions fill every group of what they return
C16_OptimizedKeepsLength ==
  fn_out # None =>
    /\ fn_in.fn = "fill_buffer_rgba_optimized" =>
         Len(fn_out.buffer) = Len(fn_in.buffer)
    /\ Len(fn_in.buffer) % 4 = 0 => Len(fn_out.buffer) = Len(fn_in.buffer)
    /\ EveryGroupIs(fn_out.buffer, fn_in.rgba)

\* ----------------- window.rs: update_frame(get_frame_buffer()), the round trip
\* get_frame_buffer with every byte of the copy zeroed
FrameToVec_Zeroed(frame) == ZeroFrame(Len(frame))

\* Buffer::from(frame.to_vec()): a copy of the frame
FrameToVec(frame) == frame

\* FrameController::get_frame_buffer by a caller that keeps the buffer to feed
\* it back; before is the state the buffer was taken from
RoundTripGet(t) ==
  /\ ctl_pc[t] = "idle"
  /\ state_lock = "free"
  /\ w_calls < MaxCalls
  /\ window_state' = window_state
  /\ IF window_state.pixels # None
       THEN /\ WReturn("get_frame_buffer", <<>>, Ok, FrameToVec(window_state.pixels))
            /\ ctl_pc' = [ctl_pc EXCEPT ![t] = "fetched"]
            /\ ctl_local' = [ctl_local EXCEPT ![t] =
                 [buffer |-> FrameToVec(window_state.pixels), before |-> window_state,
                  undisturbed |-> TRUE]]
       ELSE /\ WReturn("get_frame_buffer", <<>>, WNotInitialized, None)
            /\ UNCHANGED CtlVars
  /\ UNCHANGED <<state_lock, DispVars, w_presented, ovars, fvars>>

\* FrameController::update_frame on the kept buffer, up to drop(state).
\* undisturbed: the state is the one the buffer was taken from
RoundTripCheck(t) ==
  /\ ctl_pc[t] = "fetched"
  /\ state_lock = "free"
  /\ w_calls < MaxCalls
  /\ window_state' = window_state
  /\ LET kept == ctl_local[t]
         trip == [before |-> kept.before, after |-> window_state,
                  undisturbed |-> window_state = kept.before]
     IN IF Len(kept.buffer) # Len(window_state.pixels)
          THEN /\ WReturn("update_frame", <<kept.buffer>>,
                          Err("GenericFailure", "Buffer size mismatch"), trip)
               /\ ctl_pc' = [ctl_pc EXCEPT ![t] = "idle"]
               /\ ctl_local' = [ctl_local EXCEPT ![t] = None]
          ELSE /\ WReturn("update_frame", <<kept.buffer>>, Pending, trip)
               /\ ctl_pc' = [ctl_pc EXCEPT ![t] = "feeding"]
               /\ ctl_local' = [ctl_local EXCEPT ![t].undisturbed = trip.undisturbed]
  /\ UNCHANGED <<state_lock, DispVars, w_presented, ovars, fvars>>

\* FrameController::update_frame on the kept buffer, from the second lock()
RoundTripCopy(t) ==
  /\ ctl_pc[t] = "feeding"
  /\ state_lock = "free"
  /\ LET kept == ctl_local[t]
         fits == Len(kept.buffer) = Len(window_state.pixels)
     IN /\ window_state' =
             IF fits THEN RequestRedraw([window_state EXCEPT !.pixels = kept.buffer])
             ELSE window_state
        /\ state_lock' = IF fits THEN "free" ELSE "poisoned"
        /\ ctl_pc' = [ctl_pc EXCEPT ![t] = IF fits THEN "idle" ELSE "panicked"]
        /\ ctl_local' = [ctl_local EXCEPT ![t] = None]
        /\ w_last' = [op |-> "update_frame", args |-> <<kept.buffer>>,
                      created |-> TRUE, frame_len |-> Len(window_state.pixels),
                      result |-> IF fits THEN Ok ELSE Panicked,
                      value |-> [before |-> kept.before, after |-> window_state',
                                 undisturbed |-> /\ kept.undisturbed
                                                 /\ window_state = kept.before],
                      state_changed |-> window_state' # window_state]
  /\ UNCHANGED <<w_calls, DispVars, w_presented, ovars, fvars>>

\* round trips of two threads among the operations that change the frame
RoundTripNext ==
  \/ WCreate
  \/ WClearFrame
  \/ WDrawRectangle
  \/ \E s \in WSizes : WResize(s)
  \/ \E t \in CtlThreads : RoundTripGet(t)
  \/ \E t \in CtlThreads : RoundTripCheck(t)
  \/ \E t \in CtlThreads : RoundTripCopy(t)
  \/ WLockPoisoned
SpecRoundTrip == WindowInit /\ [][RoundTripNext]_vars

\* the last call is an update_frame that was fed a buffer of get_frame_buffer
FedBack == w_last.op = "update_frame" /\ w_last.value # None

(* C17: on a created surface, update_frame fed the buffer that
   get_frame_buffer returned succeeds and leaves the frame contents, the
   width and the height as they were when the buffer was taken (nothing else
   having changed the surface in between). *)
C17_RoundTripIdempotent ==
  (FedBack /\ w_last.value.undisturbed) =>
    /\ w_last.result \in {Pending, Ok}
    /\ w_last.value.after.pixels = w_last.value.before.pixels
    /\ w_last.value.after.width = w_last.value.before.width
    /\ w_last.value.after.height = w_last.value.before.height

\* a frame that is not all zero has made the round trip
C17_Witness ==
  /\ FedBack
  /\ w_last.value.undisturbed
  /\ w_last.result = Ok
  /\ \E i \in 1..Len(w_last.value.before.pixels) : w_last.value.before.pixels[i] # 0
  /\ window_state.pixels = w_last.value.before.pixels

\* a resize between the two calls makes the round trip fail
C17_DisturbedRoundTripFails ==
  /\ FedBack
  /\ ~w_last.value.undisturbed
  /\ w_last.result.status = "GenericFailure"

\* ------------------------------ the event loop against controller operations
\* the dispatcher with the occlusion policy set either way, and controller
\* operations before and after a close request
EventsNext ==
  \/ WCreate
  \/ WSetEventCallback
  \/ WSetRenderWhenOccluded
  \/ WShow
  \/ WRequestRedraw
  \/ WClearFrame
  \/ WGetFrameBuffer
  \/ WRender
  \/ PollEventLoop
  \/ DispFind
  \/ DispHandle
  \/ DispCallback
SpecEvents == WindowInit /\ [][EventsNext]_vars

\* the dispatcher is about to run the RedrawRequested arm on a surface that is
\* occluded and must not be rendered while occluded
RedrawWhileOccluded ==
  /\ disp_pc = "handle"
  /\ disp_event.kind = "RedrawRequested"
  /\ window_state.occluded
  /\ ~window_state.render_when_occluded

(* C18: a dispatched redraw-requested event runs the render step only if the
   surface is not occluded or render_when_occluded is true: when it is
   occluded and render_when_occluded is false, nothing is presented in
   response to the event. *)
C18_RedrawRespectsOcclusion ==
  [][RedrawWhileOccluded => w_presented' = w_presented]_vars

\* the part of C18 that holds: FrameController::render presents nothing on an
\* occluded surface that must not be rendered while occluded
C18_RenderCallRespectsOcclusion ==
  [][(w_last'.op = "render" /\ w_calls' = w_calls + 1
        /\ window_state.occluded /\ ~window_state.render_when_occluded) =>
       w_presented' = w_presented]_vars

\* the controller operations that need the window or the presentation surface
WindowDependentOps == {"show", "request_redraw", "clear_frame", "get_frame_buffer"}

(* C19: close-requested is one-way and terminal: once it has been dispatched
   the loop is told to exit, no later step takes that back, and every later
   window-dependent controller operation fails gracefully: it neither
   succeeds as if the surface were still Ready nor panics. *)
C19_CloseIsTerminal ==
  [][exit_requested =>
       /\ exit_requested'
       /\ (w_calls' = w_calls + 1 /\ w_last'.op \in WindowDependentOps) =>
            w_last'.result \notin {Ok, Panicked}]_vars

\* the part of C19 that holds: window_event never takes the exit request
\* back, and no operation panics after it
C19_ExitRequestSticks ==
  [][exit_requested =>
       /\ (disp_pc # "idle" \/ disp_pc' # "idle") => exit_requested'
       /\ (w_calls' = w_calls + 1 => w_last'.result # Panicked)]_vars

\* --------------------------- window.rs: the state lock around the pixel buffer
\* Every access below is written as two steps, the lock() that hands out the
\* guard and the rest of the function up to the drop of the guard, so that
\* threads interleave between them.
\* lock() that hands out a guard while another guard is alive
MutexFree_Unchecked(lock) == lock # "poisoned"

\* self.state.lock(): the guard is handed out when no other guard is alive
MutexFree(lock) == lock = "free"

\* the FrameController calls that lock the state and use state.pixels
LockedCalls ==
  {[op |-> "clear_frame", args |-> <<Red>>],
   [op |-> "draw_rectangle", args |-> <<0, 0, 1, 1>>],
   [op |-> "draw_image", args |-> <<1, 0, [data |-> <<9, 9, 9, 9>>, width |-> 1, height |-> 1]>>],
   [op |-> "render", args |-> <<>>]}
    \cup { [op |-> "update_frame", args |-> <<b>>] : b \in WBuffers }
    \cup { [op |-> "resize", args |-> sz] : sz \in WSizes }

\* the events whose arm locks the state and uses state.pixels
LockedEvents ==
  {[kind |-> "RedrawRequested"]} \cup { [kind |-> "Resized", size |-> sz] : sz \in WSizes }

\* the body of a call under its guard, on a created surface: the state it
\* leaves and whether it panicked.  A drawing call that panics leaves the
\* pixels it had written by then in the frame
AccessEffect(st, call, overflow_checks) ==
  CASE call.op = "clear_frame" ->
         [panic |-> FALSE,
          state |-> RequestRedraw([st EXCEPT
                      !.pixels = ClearBufferOptimized(@, call.args[1])])]
    [] call.op = "draw_rectangle" ->
         LET drawn == DrawRectangleOptimized(st.pixels, call.args[1], call.args[2],
                        call.args[3], call.args[4], st.width, st.height, Red,
                        overflow_checks)
         IN [panic |-> drawn.panic,
             state |-> IF drawn.panic THEN [st EXCEPT !.pixels = drawn.frame]
                       ELSE RequestRedraw([st EXCEPT !.pixels = drawn.frame])]
    [] call.op = "draw_image" ->
         LET drawn == BlitRows(st.pixels, 0, call.args[1], call.args[2], call.args[3],
                               st.width, st.height, overflow_checks)
         IN [panic |-> drawn.panic,
             state |-> IF drawn.panic THEN [st EXCEPT !.pixels = drawn.frame]
                       ELSE RequestRedraw([st EXCEPT !.pixels = drawn.frame])]
    [] call.op = "resize" ->
         [panic |-> FALSE,
          state |-> IF ResizeBufferFails(call.args[1], call.args[2]) THEN st
                    ELSE RequestRedraw([st EXCEPT
                           !.pixels = ResizeFrame(@, call.args[1] * call.args[2] * 4),
                           !.width = call.args[1],
                           !.height = call.args[2]])]
    [] call.op = "update_frame_copy" ->
         IF Len(call.args[1]) = Len(st.pixels)
           THEN [panic |-> FALSE,
                 state |-> RequestRedraw([st EXCEPT !.pixels = call.args[1]])]
           ELSE [panic |-> TRUE, state |-> st]
    [] OTHER -> [panic |-> FALSE, state |-> st]

\* let state = self.state.lock().unwrap() at the head of a FrameController call
LockEnter(t) ==
  \E call \in LockedCalls :
    /\ ctl_pc[t] = "idle"
    /\ w_calls < MaxCalls
    /\ MutexFree(state_lock)
    /\ state_lock' = t
    /\ ctl_pc' = [ctl_pc EXCEPT ![t] = "access"]
    /\ ctl_local' = [ctl_local EXCEPT ![t] = call]
    /\ w_calls' = w_calls + 1
    /\ UNCHANGED <<window_state, w_last, DispVars, w_presented, ovars, fvars>>

\* the call from its lock() to the drop of the guard.  update_frame drops its
\* first guard after the length check and goes on to lock again; a panic
\* unwinds with the guard alive and poisons the mutex; a render whose
\* pixels.render() fails returns the error and presents nothing
LockLeave(t) ==
  /\ ctl_pc[t] = "access"
  /\ \E overflow_checks \in BOOLEAN, render_ok \in BOOLEAN :
     LET call == ctl_local[t]
         live == window_state.pixels # None
         effect == IF live THEN AccessEffect(window_state, call, overflow_checks)
                   ELSE [panic |-> FALSE, state |-> window_state]
         again == /\ call.op = "update_frame"
                  /\ live
                  /\ Len(call.args[1]) = Len(window_state.pixels)
         should_render == ~window_state.occluded \/ window_state.render_when_occluded
     IN /\ window_state' = effect.state
        /\ state_lock' = IF effect.panic THEN "poisoned" ELSE "free"
        /\ ctl_pc' = [ctl_pc EXCEPT ![t] =
                        IF effect.panic THEN "panicked"
                        ELSE IF again THEN "relock" ELSE "idle"]
        /\ ctl_local' = [ctl_local EXCEPT ![t] =
                           IF again THEN [op |-> "update_frame_copy", args |-> call.args]
                           ELSE None]
        /\ w_presented' = IF call.op = "render" /\ live /\ should_render /\ render_ok
                            THEN window_state.pixels ELSE w_presented
  /\ UNCHANGED <<w_last, w_calls, DispVars, ovars, fvars>>

\* update_frame: let mut state = self.state.lock().unwrap() after drop(state)
LockReenter(t) ==
  /\ ctl_pc[t] = "relock"
  /\ MutexFree(state_lock)
  /\ state_lock' = t
  /\ ctl_pc' = [ctl_pc EXCEPT ![t] = "access"]
  /\ UNCHANGED <<window_state, ctl_local, w_last, w_calls, DispVars, w_presented,
                 ovars, fvars>>

\* window_event: state_arc.lock().unwrap() of the Resized and RedrawRequested arms
LoopEnter ==
  \E event \in LockedEvents :
    /\ disp_pc = "idle"
    /\ w_events < MaxEvents
    /\ window_state.window # None
    /\ MutexFree(state_lock)
    /\ state_lock' = "loop"
    /\ disp_pc' = "access"
    /\ disp_event' = event
    /\ w_events' = w_events + 1
    /\ UNCHANGED <<window_state, CtlVars, w_last, w_calls, exit_requested, callbacks,
                   w_presented, ovars, fvars>>

\* the arm up to the drop of its guard.  For Resized, which has an
\* OverlayEvent, window_event goes on to the callback section (DispCallback),
\* which locks again; for RedrawRequested overlay_event is None and
\* window_event returns.  A pixels.render() that fails takes the request and
\* presents nothing
LoopLeave ==
  \E render_ok \in BOOLEAN :
  /\ disp_pc = "access"
  /\ window_state' =
       IF disp_event.kind = "Resized"
         THEN [window_state EXCEPT
                 !.width = disp_event.size[1],
                 !.height = disp_event.size[2],
                 !.window.inner_size = disp_event.size,
                 !.pixels = IF window_state.pixels # None
                              THEN ResizeBufferIgnoringError(@, disp_event.size[1],
                                                             disp_event.size[2])
                              ELSE @]
         ELSE [window_state EXCEPT !.window.redraw = FALSE]
  /\ w_presented' =
       IF disp_event.kind = "RedrawRequested" /\ window_state.pixels # None /\ render_ok
         THEN window_state.pixels ELSE w_presented
  /\ state_lock' = "free"
  /\ IF OverlayEventOf(disp_event) # None
       THEN /\ disp_pc' = "callback"
            /\ disp_event' = disp_event
       ELSE /\ disp_pc' = "idle"
            /\ disp_event' = None
  /\ UNCHANGED <<CtlVars, w_last, w_calls, exit_requested, callbacks, w_events,
                 ovars, fvars>>

LockNext ==
  \/ WCreate
  \/ WSetEventCallback
  \/ WLockPoisoned
  \/ DispCallback
  \/ DispLockPoisoned
  \/ \E t \in CtlThreads : LockEnter(t)
  \/ \E t \in CtlThreads : LockLeave(t)
  \/ \E t \in CtlThreads : LockReenter(t)
  \/ LoopEnter
  \/ LoopLeave
SpecLock == WindowInit /\ [][LockNext]_vars

\* the threads that are inside an access to the pixel buffer
InsideAccess ==
  {t \in CtlThreads : ctl_pc[t] = "access"} \cup
  (IF disp_pc = "access" THEN {"loop"} ELSE {})

(* C20: the render step and the frame-buffer mutations (update_frame,
   clear_frame, draw_rectangle, draw_image, resize, the Resized arm) exclude
   each other: in every interleaving of the caller threads and the event
   loop at most one is inside its access to the pixel buffer, and the one
   inside holds the state lock. *)
C20_OneAccessAtATime ==
  /\ Cardinality(InsideAccess) <= 1
  /\ \A t \in InsideAccess : state_lock = t

\* a caller is inside the copy of update_frame, after a render by the event
\* loop, while the other caller waits to lock again
C20_Witness ==
  /\ \E t \in CtlThreads :
       /\ ctl_pc[t] = "access"
       /\ ctl_local[t].op = "update_frame_copy"
       /\ \E u \in CtlThreads : ctl_pc[u] = "relock"
  /\ w_presented # None

\* ------------------------------------------ claims on the Overlay's lock
(* C21: every controller operation completes and releases the state lock
   before it returns: no call is ever left waiting for the lock that the
   same call already holds. *)
C21_NoSelfDeadlock ==
  caller_pc = "relock" => overlay_lock # "caller"

\* the part of C21 that holds: an Overlay operation that has returned has
\* released the lock
C21_ReturnedCallsReleaseLock ==
  caller_pc = "idle" => overlay_lock # "caller"

\* ------------------------------- window.rs: window_event, signal by signal
\* the signals of the platform: those window_event has an arm for, and one
\* that falls to the arm _ => {}
DispatchSignals == WEvents \cup {[kind |-> "KeyboardInput"]}

\* window_event: self.windows.iter().find(..).  registered: window_id is the
\* id of the window the state holds; a signal for any other id finds nothing
DispFindSignal ==
  \E event \in DispatchSignals, registered \in BOOLEAN :
    /\ disp_pc = "idle"
    /\ state_lock = "free"
    /\ w_events < MaxEvents
    /\ w_events' = w_events + 1
    /\ IF window_state.window # None /\ registered
         THEN /\ disp_pc' = "handle"
              /\ disp_event' = event
         ELSE /\ disp_pc' = "idle"
              /\ disp_event' = None
    /\ UNCHANGED <<window_state, state_lock, CtlVars, w_last, w_calls,
                   exit_requested, callbacks, w_presented, ovars, fvars>>

DispatchNext ==
  \/ WCreate
  \/ WSetEventCallback
  \/ DispFindSignal
  \/ DispHandle
  \/ DispCallback
SpecDispatch == WindowInit /\ [][DispatchNext]_vars

\* the OverlayEvent the claim names for a signal, None for no callback
ClaimedEvent(signal) ==
  CASE signal.kind = "Resized" -> Some("Resized")
    [] signal.kind = "Moved" -> Some("Moved")
    [] signal.kind = "CloseRequested" -> Some("CloseRequested")
    [] signal.kind = "Focused" /\ signal.flag -> Some("Focused")
    [] signal.kind = "Focused" /\ ~signal.flag -> Some("Blurred")
    [] signal.kind = "CursorEntered" -> Some("MouseEnter")
    [] signal.kind = "CursorLeft" -> Some("MouseLeave")
    [] signal.kind = "Occluded" /\ signal.flag -> Some("Minimized")
    [] signal.kind = "Occluded" /\ ~signal.flag -> Some("Restored")
    [] OTHER -> None

\* the dispatcher ends the handling of a signal of its registered window
SignalHandled == disp_pc = "callback" /\ disp_pc' = "idle"

(* C22: the dispatcher maps each platform signal to at most one OverlayEvent
   and calls the registered callback at most once per signal, with the event
   of the claim's table; a redraw request, any other signal and a signal for
   a window that is not registered call nothing. *)
C22_OneEventPerSignal ==
  /\ [](Len(callbacks) <= w_events)
  /\ [][IF SignalHandled /\ window_state.event_callback # None
                         /\ ClaimedEvent(disp_event) # None
          THEN callbacks' = Append(callbacks, ClaimedEvent(disp_event).v)
          ELSE callbacks' = callbacks]_vars

\* of two signals one was reported to the callback and one was not
C22_Witness ==
  /\ w_events = MaxEvents
  /\ disp_pc = "idle"
  /\ Len(callbacks) = 1

\* ------------------------------------------------ claims on get_frame_size
(* C23: get_frame_size reports the declared width and height of the buffer,
   square or not: the size an Overlay::get_frame_size call returns has as
   many pixels as the frame it was asked about. *)
C23_FrameSizeIsDeclared ==
  [][(o_calls' = o_calls + 1 /\ o_last'.op = "get_frame_size" /\ o_last'.result = Ok) =>
       o_last'.value[1] * o_last'.value[2] * 4 = overlay_state.pixels.len]_vars

\* the part of C23 that holds: FrameController::get_frame_size returns the
\* width and height fields of the state
C23_ControllerReportsFields ==
  [][(w_calls' = w_calls + 1 /\ w_last'.op = "get_frame_size") =>
       w_last'.value = <<window_state.width, window_state.height>>]_vars

\* ------------------------------------------- claims on set_size / get_size
(* C24: on a created surface set_size(w, h) applies immediately: a get_size
   issued right after a set_size(w, h) that returned, with no other call in
   between, returns {w, h}. *)
C24_GetSizeAfterSetSize ==
  [][(w_last.op = "set_size" /\ w_last.result = Ok
        /\ w_calls' = w_calls + 1 /\ w_last'.op = "get_size") =>
       /\ w_last'.result = Ok
       /\ w_last'.value = w_last.args]_vars

\* the part of C24 that holds: the width and height of the state are those
\* of the set_size that has just returned
C24_StateSizeAfterSetSize ==
  (w_last.op = "set_size" /\ w_last.result = Ok) =>
     <<window_state.width, window_state.height>> = w_last.args


\* ------------------------------------------------ the pending configuration
\* start is at a statement that reads the pending configuration
StartReadsConfig == start_pc \in {"idle", "read_config"}

\* a call to `op` has returned in this step
OCallReturns(op) == o_calls' = o_calls + 1 /\ o_last'.op = op

\* the live window or surface took the value of the setter call that returned
ActsOnLive ==
  /\ OCallReturns("set_position") =>
       /\ overlay_state'.window.position.x = o_last'.args[1]
       /\ overlay_state'.window.position.y = o_last'.args[2]
  /\ OCallReturns("set_size") => overlay_state'.window.size = o_last'.args
  /\ OCallReturns("set_title") => overlay_state'.window.title = o_last'.args[1]
  /\ OCallReturns("set_window_level") =>
       overlay_state'.window.level = o_last'.args[1]
  /\ (OCallReturns("update_frame") /\ o_last'.result = Ok) =>
       overlay_state'.pixels = o_last'.args[1]
  /\ (OCallReturns("update_frame") /\ o_last'.result # Ok) =>
       overlay_state'.pixels = overlay_state.pixels

\* the pending configuration is never read or written once the window is
\* stored: start is past the statements that read it and never returns to
\* them, no step changes it or the counts of its reads, and every later
\* setter and update_frame acts on the live window or surface
PendingConfigUnreachable ==
  /\ [](overlay_state.window # None => ~StartReadsConfig)
  /\ [][overlay_state.window # None =>
          /\ initial_config' = initial_config
          /\ start_local'.frame_reads = start_local.frame_reads
          /\ start_local'.config_reads = start_local.config_reads
          /\ start_local'.creations = start_local.creations
          /\ overlay_state'.window # None
          /\ ActsOnLive]_vars

ConfigFields == {"width", "height", "x", "y", "title", "window_level",
                 "initial_frame_data"}

\* the fields of the pending configuration a setter supplies
FieldsSetBy(op) ==
  CASE op = "set_position" -> {"x", "y"}
    [] op = "set_size" -> {"width", "height"}
    [] op = "set_title" -> {"title"}
    [] op = "set_window_level" -> {"window_level"}
    [] op = "update_frame" -> {"initial_frame_data"}
    [] OTHER -> {}

\* the defaults the specification documents for an absent field; it documents
\* none for the position, and no payload is staged by default
DocumentedTitle == "Overlay"
HasDocumentedDefault(cfg, field) ==
  CASE field = "width" -> cfg.width = DefaultWidth
    [] field = "height" -> cfg.height = DefaultHeight
    [] field = "title" -> cfg.title = DocumentedTitle
    [] field = "window_level" -> cfg.window_level = "AlwaysOnTop"
    [] field = "initial_frame_data" -> cfg.initial_frame_data = None
    [] OTHER -> TRUE

\* a setter called before creation has returned in this step
StagingCallReturns ==
  /\ o_calls' = o_calls + 1
  /\ o_last'.op \in OSetters
  /\ ~o_last'.created

(* C26: a pre-creation setter merges into the pending configuration: if     *)
(* none exists it creates one with the documented defaults plus the         *)
(* supplied value; if one exists it changes only the fields it sets and     *)
(* leaves every other staged field unchanged.                               *)
C26_SetterMerges ==
  [][StagingCallReturns =>
       /\ initial_config' # None
       /\ StagedIn(initial_config', o_last')
       /\ \A f \in ConfigFields \ FieldsSetBy(o_last'.op) :
            IF initial_config = None
              THEN HasDocumentedDefault(initial_config', f)
              ELSE initial_config'[f] = initial_config[f]]_vars

\* the merge into an existing configuration, and the supplied value in a new one
C26_MergeKeepsOtherFields ==
  [][StagingCallReturns =>
       /\ initial_config' # None
       /\ StagedIn(initial_config', o_last')
       /\ initial_config # None =>
            \A f \in ConfigFields \ FieldsSetBy(o_last'.op) :
              initial_config'[f] = initial_config[f]]_vars


\* ------------------------------------------------ the staged pixel payload
\* start has finished creation and is about to run the event loop
CreationCompletes == start_pc = "apply" /\ start_pc' = "running"

(* C27: if update_frame staged a pixel payload before creation, then after  *)
(* creation succeeds the frame's contents equal that payload before the     *)
(* surface is rendered for the first time; an accepted payload is never     *)
(* silently discarded.                                                      *)
C27_StagedPayloadShown ==
  [][(/\ CreationCompletes
      /\ initial_config # None
      /\ initial_config.initial_frame_data # None) =>
       /\ overlay_state'.pixels = initial_config.initial_frame_data
       /\ presented' = None]_vars

\* a payload start has read, of the frame's length, is in the frame when the
\* event loop starts, and nothing is presented before that
C27_FittingPayloadShown ==
  [][(/\ CreationCompletes
      /\ start_local.frame_data # None
      /\ start_local.frame_data.len = overlay_state.pixels.len) =>
       /\ overlay_state'.pixels = start_local.frame_data
       /\ presented' = None]_vars


\* ------------------------------------------------ FrameController::render
\* render against the occlusion flag, the events that set it and the frame
RenderNext ==
  \/ WCreate
  \/ WSetRenderWhenOccluded
  \/ WClearFrame
  \/ WRender
  \/ DispFind
  \/ DispHandle
  \/ DispCallback
SpecRender == WindowInit /\ [][RenderNext]_vars

\* a call of FrameController::render has returned in this step
RenderReturns == w_calls' = w_calls + 1 /\ w_last'.op = "render"

(* C28: FrameController::render returns success without presenting when the *)
(* surface is occluded and render_when_occluded is false; in every other    *)
(* case with a created surface it presents the frame once and returns the   *)
(* platform's result, a render failure being an error to the caller.        *)
C28_RenderHonoursOcclusion ==
  [][RenderReturns =>
       /\ window_state' = window_state
       /\ IF window_state.occluded /\ ~window_state.render_when_occluded
            THEN /\ w_last'.result = Ok
                 /\ w_presented' = w_presented
            ELSE window_state.pixels # None =>
                   \/ /\ w_last'.result = Ok
                      /\ w_presented' = window_state.pixels
                   \/ /\ w_last'.result = Err("GenericFailure", "Render error")
                      /\ w_presented' = w_presented]_vars

\* render was skipped on an occluded, created surface that holds a frame
C28_Witness ==
  /\ w_last.op = "render"
  /\ w_last.result = Ok
  /\ window_state.pixels # None
  /\ window_state.occluded
  /\ ~window_state.render_when_occluded
  /\ w_presented = None

\* render presented the frame of a surface that is occluded, the flag being set
C28_PresentedWhileOccluded ==
  /\ w_last.op = "render"
  /\ w_last.result = Ok
  /\ window_state.occluded
  /\ window_state.render_when_occluded
  /\ w_presented = window_state.pixels


\* ------------------------------------------ image.rs: convert_pixel_format
\* enum PixelFormat
PixelFormat == {"RGB", "RGBA", "BGRA", "BGR"}

\* (width * height * k) as usize, evaluated in u32: whether it overflows
CapacityOverflows(width, height, k) ==
  \/ MulU32Overflows(width, height)
  \/ LET pixels == WrappingMul(width, height)
     IN pixels < 0 \/ MulU32Overflows(pixels, k)

\* for rgb in data.chunks_exact(3) { rgba_data.extend_from_slice(&[r, g, b, 255]) }
RECURSIVE ExtendRgbToRgba(_, _, _)
ExtendRgbToRgba(data, chunk, rgba_data) ==
  IF chunk >= Len(data) \div 3 THEN rgba_data
  ELSE ExtendRgbToRgba(data, chunk + 1,
         rgba_data \o <<data[3 * chunk + 1], data[3 * chunk + 2],
                        data[3 * chunk + 3], 255>>)

\* for rgba in data.chunks_exact(4) { rgb_data.extend_from_slice(&[r, g, b]) }
RECURSIVE ExtendRgbaToRgb(_, _, _)
ExtendRgbaToRgb(data, chunk, rgb_data) ==
  IF chunk >= Len(data) \div 4 THEN rgb_data
  ELSE ExtendRgbaToRgb(data, chunk + 1,
         rgb_data \o <<data[4 * chunk + 1], data[4 * chunk + 2],
                       data[4 * chunk + 3]>>)

\* for bgra in data.chunks_exact(4) { extend_from_slice(&[bgra[2], bgra[1], bgra[0], bgra[3]]) }
RECURSIVE ExtendBgraToRgba(_, _, _)
ExtendBgraToRgba(data, chunk, rgba_data) ==
  IF chunk >= Len(data) \div 4 THEN rgba_data
  ELSE ExtendBgraToRgba(data, chunk + 1,
         rgba_data \o <<data[4 * chunk + 3], data[4 * chunk + 2],
                        data[4 * chunk + 1], data[4 * chunk + 4]>>)

ConvertOk(data) == [status |-> "Ok", data |-> Some(data)]
ConvertErr == [status |-> "Err", data |-> None]
ConvertPanic == [status |-> "Panic", data |-> None]

\* convert_pixel_format.  The capacity of the new vector is computed in u32;
\* a build with overflow checks panics where the product overflows, a build
\* without them wraps it, and the capacity does not change the result.
ConvertPixelFormat_BgraBothWays(data, from_format, to_format, width, height, overflow_checks) ==
  CASE from_format = "RGB" /\ to_format = "RGBA" ->
         IF overflow_checks /\ CapacityOverflows(width, height, 4)
           THEN ConvertPanic
           ELSE ConvertOk(ExtendRgbToRgba(data, 0, <<>>))
    [] from_format = "RGBA" /\ to_format = "RGB" ->
         IF overflow_checks /\ CapacityOverflows(width, height, 3)
           THEN ConvertPanic
           ELSE ConvertOk(ExtendRgbaToRgb(data, 0, <<>>))
    [] from_format \in {"BGRA", "RGBA"} /\ to_format \in {"BGRA", "RGBA"}
         /\ from_format # to_format ->
         ConvertOk(ExtendBgraToRgba(data, 0, <<>>))
    [] OTHER -> ConvertErr

ConvertPixelFormat(data, from_format, to_format, width, height, overflow_checks) ==
  CASE from_format = "RGB" /\ to_format = "RGBA" ->
         IF overflow_checks /\ CapacityOverflows(width, height, 4)
           THEN ConvertPanic
           ELSE ConvertOk(ExtendRgbToRgba(data, 0, <<>>))
    [] from_format = "RGBA" /\ to_format = "RGB" ->
         IF overflow_checks /\ CapacityOverflows(width, height, 3)
           THEN ConvertPanic
           ELSE ConvertOk(ExtendRgbaToRgb(data, 0, <<>>))
    [] from_format = "BGRA" /\ to_format = "RGBA" ->
         ConvertOk(ExtendBgraToRgba(data, 0, <<>>))
    [] OTHER -> ConvertErr

\* byte sequences of whole pixels and sequences that end inside a pixel
ConvertBytes == {0, 9, 255}
ConvertShortLen == 4
ConvertData ==
  UNION {[1..n -> ConvertBytes] : n \in 0..ConvertShortLen}
    \cup {<<1, 2, 3, 4, 5, 6>>, <<1, 2, 3, 4, 5, 6, 7>>,
          <<1, 2, 3, 4, 5, 6, 7, 8>>, <<1, 2, 3, 4, 5, 6, 7, 8, 9>>,
          <<1, 2, 3, 4, 5, 6, 7, 8, 9, 10, 11, 12>>}
\* declared sizes, one of them with width * height past the u32 range
ConvertDims == {<<1, 1>>, <<2, 1>>, <<0, 5>>, <<65536, 65536>>}
ConvertInputs ==
  [data : ConvertData, from_format : PixelFormat, to_format : PixelFormat,
   dims : ConvertDims, overflow_checks : BOOLEAN]

ConvertInit ==
  /\ fn_in \in ConvertInputs
  /\ fn_out = None
  /\ OIdle
  /\ WIdle

\* one call of convert_pixel_format
ConvertCall ==
  /\ fn_out = None
  /\ fn_out' = [first |-> ConvertPixelFormat(fn_in.data, fn_in.from_format,
                            fn_in.to_format, fn_in.dims[1], fn_in.dims[2],
                            fn_in.overflow_checks),
                second |-> None]
  /\ UNCHANGED <<fn_in, ovars, wvars>>

\* the RGBA data of an RGB -> RGBA call converted back with the same size
ConvertBack ==
  /\ fn_out # None
  /\ fn_in.from_format = "RGB"
  /\ fn_in.to_format = "RGBA"
  /\ fn_out.first.status = "Ok"
  /\ fn_out.second = None
  /\ fn_out' = [fn_out EXCEPT !.second =
       ConvertPixelFormat(fn_out.first.data.v, "RGBA", "RGB", fn_in.dims[1],
                          fn_in.dims[2], fn_in.overflow_checks)]
  /\ UNCHANGED <<fn_in, ovars, wvars>>

ConvertNext ==
  \/ ConvertCall
  \/ ConvertBack
SpecConvert == ConvertInit /\ [][ConvertNext]_vars

\* -------------------------------------------------- claims on SpecConvert
SupportedPairs == {<<"RGB", "RGBA">>, <<"RGBA", "RGB">>, <<"BGRA", "RGBA">>}

(* C29: convert_format succeeds only for the pairs RGB->RGBA, RGBA->RGB and *)
(* BGRA->RGBA; every other (from, to) pair, identical formats and           *)
(* RGBA->BGRA included, returns an error and produces no output data.       *)
C29_OnlySupportedPairsConvert ==
  fn_out # None =>
    /\ fn_out.first.status = "Ok" =>
         <<fn_in.from_format, fn_in.to_format>> \in SupportedPairs
    /\ <<fn_in.from_format, fn_in.to_format>> \in SupportedPairs =>
         fn_out.first.status # "Err"
    /\ <<fn_in.from_format, fn_in.to_format>> \notin SupportedPairs =>
         /\ fn_out.first.status = "Err"
         /\ fn_out.first.data = None

\* RGBA -> BGRA of two whole pixels was refused
C29_Witness ==
  /\ fn_out # None
  /\ fn_in.from_format = "RGBA"
  /\ fn_in.to_format = "BGRA"
  /\ Len(fn_in.data) = 8
  /\ fn_out.first = ConvertErr


\* the call is RGB -> RGBA of whole RGB pixels
RgbCall ==
  /\ fn_in.from_format = "RGB"
  /\ fn_in.to_format = "RGBA"
  /\ Len(fn_in.data) % 3 = 0

\* the call is BGRA -> RGBA
BgraCall == fn_in.from_format = "BGRA" /\ fn_in.to_format = "RGBA"

\* every pixel of rgba has alpha 255
AlphaOpaque(rgba) ==
  /\ Len(rgba) % 4 = 0
  /\ \A p \in 0..((Len(rgba) \div 4) - 1) : rgba[4 * p + 4] = 255

\* rgba is bgra with bytes 0 and 2 of every pixel swapped
SwappedPixels(bgra, rgba) ==
  /\ Len(rgba) = 4 * (Len(bgra) \div 4)
  /\ \A p \in 0..((Len(bgra) \div 4) - 1) :
       /\ rgba[4 * p + 1] = bgra[4 * p + 3]
       /\ rgba[4 * p + 3] = bgra[4 * p + 1]
       /\ rgba[4 * p + 2] = bgra[4 * p + 2]
       /\ rgba[4 * p + 4] = bgra[4 * p + 4]

\* what the claim says of a finished call, whatever it returned
RoundTripContract ==
  /\ RgbCall =>
       /\ fn_out.first.status = "Ok"
       /\ AlphaOpaque(fn_out.first.data.v)
       /\ Len(fn_out.first.data.v) = 4 * (Len(fn_in.data) \div 3)
       /\ fn_out.second # None =>
            /\ fn_out.second.status = "Ok"
            /\ fn_out.second.data.v = fn_in.data
  /\ BgraCall =>
       /\ fn_out.first.status = "Ok"
       /\ SwappedPixels(fn_in.data, fn_out.first.data.v)

(* C30: for every RGB byte sequence whose length is a multiple of 3,        *)
(* RGB->RGBA followed by RGBA->RGB returns the original bytes, the          *)
(* intermediate RGBA data has alpha 255 in every pixel, and BGRA->RGBA      *)
(* swaps bytes 0 and 2 of every pixel while keeping bytes 1 and 3.          *)
C30_ConversionRoundTrip == fn_out # None => RoundTripContract

\* the same for the calls in which no capacity computation panics
C30_RoundTripWithoutOverflow ==
  (/\ fn_out # None
   /\ ~(fn_in.overflow_checks /\ CapacityOverflows(fn_in.dims[1], fn_in.dims[2], 4)))
    => RoundTripContract

\* a round trip of two RGB pixels has been made
C30_RoundTripMade ==
  /\ fn_out # None
  /\ RgbCall
  /\ Len(fn_in.data) = 6
  /\ fn_out.second # None
  /\ fn_out.second.status = "Ok"


\* --------------------------------------------------- f32 arithmetic
\* An f32 that is zero or positive is held as [m, e], the value m * 2^e, with
\* m = 0 or 2^23 <= m < 2^24 (the 24 significant bits of the IEEE format).
\* Every operation rounds its exact result to nearest, ties to even.
RECURSIVE Pow2(_)
Pow2(k) == IF k <= 0 THEN 1 ELSE 2 * Pow2(k - 1)

RECURSIVE BitLen(_)
BitLen(n) == IF n <= 0 THEN 0 ELSE 1 + BitLen(n \div 2)

F32Zero == [m |-> 0, e |-> 0]
F32One == [m |-> Pow2(23), e |-> -23]

\* q + 1 when the discarded part r of 2^s is past the half, or at it with q odd
RoundTiesEven(q, r, s) ==
  IF s = 0 THEN q
  ELSE IF r > Pow2(s - 1) \/ (r = Pow2(s - 1) /\ q % 2 = 1) THEN q + 1 ELSE q

\* a rounded quotient that reached 2^24 is 2^23 with the next exponent
F32Carry(q, e) == IF q = Pow2(24) THEN [m |-> Pow2(23), e |-> e + 1] ELSE [m |-> q, e |-> e]

\* the f32 nearest to n * 2^e, for 0 <= n < 2^31
F32Round(n, e) ==
  IF n = 0 THEN F32Zero
  ELSE LET bits == BitLen(n)
       IN IF bits <= 24
            THEN [m |-> n * Pow2(24 - bits), e |-> e - (24 - bits)]
            ELSE LET s == bits - 24
                 IN F32Carry(RoundTiesEven(n \div Pow2(s), n % Pow2(s), s), e + s)

\* a * 2^k = q * 255 + rem: binary long division until q has 24 bits
RECURSIVE DivBy255Loop(_, _, _)
DivBy255Loop(q, rem, k) ==
  IF q >= Pow2(23)
    THEN F32Carry(IF 2 * rem > 255 THEN q + 1 ELSE q, -k)
    ELSE LET bit == IF 2 * rem >= 255 THEN 1 ELSE 0
         IN DivBy255Loop(2 * q + bit, 2 * rem - 255 * bit, k + 1)

\* a as f32 / 255.0, for a u8
F32DivBy255(a) == IF a = 0 THEN F32Zero ELSE DivBy255Loop(a \div 255, a % 255, 0)

\* 1.0 - x, for 0 <= x <= 1
F32OneMinus(x) ==
  IF x.m = 0 THEN F32One
  ELSE F32Round((Pow2((-x.e) - 1) - x.m) + Pow2((-x.e) - 1), x.e)

\* c as f32 * x, for a u8 c.  The product c * x.m can need 32 bits and is
\* formed in two parts, high * 256 + low.
F32MulU8(c, x) ==
  IF c = 0 \/ x.m = 0 THEN F32Zero
  ELSE LET mh == x.m \div 256
           ml == x.m % 256
           high == c * mh + (c * ml) \div 256
           low == (c * ml) % 256
       IN IF high < Pow2(16) THEN F32Round(high * 256 + low, x.e)
          ELSE LET s == BitLen(high) - 16
                   q == high * Pow2(8 - s) + low \div Pow2(s)
               IN F32Carry(RoundTiesEven(q, low % Pow2(s), s), x.e + s)

\* x + y.  The smaller operand is aligned to three extra bits of the larger,
\* the bits shifted out being kept as a sticky lowest bit.
F32Add(x, y) ==
  IF x.m = 0 THEN y
  ELSE IF y.m = 0 THEN x
  ELSE LET big == IF x.e >= y.e THEN x ELSE y
           small == IF x.e >= y.e THEN y ELSE x
           d == big.e - small.e
       IN IF d = 0 THEN F32Round(big.m + small.m, big.e)
          ELSE LET shifted == IF d >= 27 THEN 0 ELSE (small.m * 8) \div Pow2(d)
                   lost == IF d >= 27 THEN TRUE ELSE (small.m * 8) % Pow2(d) # 0
                   sticky == IF lost /\ shifted % 2 = 0 THEN shifted + 1 ELSE shifted
               IN F32Round(big.m * 8 + sticky, big.e - 3)

\* x as u8: the fraction is dropped and the value saturates at 255
F32ToU8(x) ==
  IF x.m = 0 THEN 0
  ELSE IF x.e >= 0 THEN 255
  ELSE IF -x.e >= 24 THEN 0
  ELSE Min(x.m \div Pow2(-x.e), 255)

\* ------------------------------------------------ color.rs: Color::blend
\* (c as f32 * alpha + o as f32 * (1.0 - alpha)) as u8
BlendChannel(c, o, alpha) ==
  F32ToU8(F32Add(F32MulU8(c, alpha), F32MulU8(o, F32OneMinus(alpha))))

\* Color::blend, a Color being <<r, g, b, a>>
Blend_AlphaKept(self, other) ==
  LET alpha == F32DivBy255(self[4])
  IN <<BlendChannel(self[1], other[1], alpha), BlendChannel(self[2], other[2], alpha),
       BlendChannel(self[3], other[3], alpha), self[4]>>

Blend(self, other) ==
  LET alpha == F32DivBy255(self[4])
  IN <<BlendChannel(self[1], other[1], alpha), BlendChannel(self[2], other[2], alpha),
       BlendChannel(self[3], other[3], alpha), BlendChannel(self[4], other[4], alpha)>>

\* colours with opaque, transparent and intermediate alpha
BlendColors ==
  {<<r, g, b, a>> : r \in {0, 200}, g \in {37, 255}, b \in {128},
                    a \in {0, 1, 127, 128, 254, 255}}
BlendInputs == [fn : {"color::blend", "lib::blend"}, self : BlendColors, other : BlendColors]

BlendInit ==
  /\ fn_in \in BlendInputs
  /\ fn_out = None
  /\ OIdle
  /\ WIdle

\* color.rs Color::blend, called by blend_colors
BlendColorRs ==
  /\ fn_out = None
  /\ fn_in.fn = "color::blend"
  /\ fn_out' = [color |-> Blend(fn_in.self, fn_in.other)]
  /\ UNCHANGED <<fn_in, ovars, wvars>>

\* lib.rs Color::blend, the same statements
BlendLibRs ==
  /\ fn_out = None
  /\ fn_in.fn = "lib::blend"
  /\ fn_out' = [color |-> Blend(fn_in.self, fn_in.other)]
  /\ UNCHANGED <<fn_in, ovars, wvars>>

BlendNext ==
  \/ BlendColorRs
  \/ BlendLibRs
SpecBlend == BlendInit /\ [][BlendNext]_vars

(* C31: a foreground with alpha 255 blended over any background returns the *)
(* foreground, so c.blend(c) = c for c.a = 255, and a foreground with alpha *)
(* 0 blended over any background returns the background, in all four        *)
(* channels.                                                                *)
C31_OpaqueAndTransparentBlend ==
  fn_out # None =>
    /\ fn_in.self[4] = 255 => fn_out.color = fn_in.self
    /\ fn_in.self[4] = 0 => fn_out.color = fn_in.other

\* a transparent foreground was blended over a background of another alpha
C31_Witness ==
  /\ fn_out # None
  /\ fn_in.self[4] = 0
  /\ fn_in.other[4] = 254
  /\ fn_in.other[1] # fn_in.self[1]
  /\ fn_out.color = fn_in.other

\* an opaque colour was blended over itself
C31_SelfBlend ==
  /\ fn_out # None
  /\ fn_in.self = fn_in.other
  /\ fn_in.self[4] = 255
  /\ fn_out.color = fn_in.self

\* translucent red over opaque: 200 * (128 / 255) in f32 is 100.39..., not 100.5
C31_HalfBlend ==
  /\ fn_out # None
  /\ fn_in.self = <<200, 37, 128, 128>>
  /\ fn_in.other = <<0, 255, 128, 255>>
  /\ fn_out.color = <<100, 145, 128, 191>>


\* ------------------------------------------------- color.rs: Color::lerp
\* An f64 argument t is NaN, an infinity, or the dyadic number n / 2^k.  For
\* the t drawn here every f64 operation of lerp is exact: the channels are
\* integers below 2^8 and t has at most LerpFractionBits fractional bits.
LerpFractionBits == 2
F64(n, k) == [kind |-> "num", n |-> n, k |-> k]
F64NaN == [kind |-> "nan", n |-> 0, k |-> 0]
F64Inf == [kind |-> "inf", n |-> 1, k |-> 0]
F64NegInf == [kind |-> "inf", n |-> -1, k |-> 0]

\* t.clamp(0.0, 1.0): NaN stays NaN
ClampUnit_Unclamped(t) == t

ClampUnit(t) ==
  IF t.kind = "nan" THEN t
  ELSE IF t.n < 0 THEN F64(0, 0)
  ELSE IF t.kind = "inf" \/ t.n > Pow2(t.k) THEN F64(1, 0)
  ELSE t

\* (c as f64 + (o as f64 - c as f64) * t) as u8: NaN becomes 0, the fraction
\* is dropped and the value saturates at 0 and at 255
LerpChannel(c, o, t) ==
  IF t.kind = "nan" THEN 0
  ELSE IF t.kind = "inf"
    THEN IF o = c THEN 0
         ELSE IF (o - c) * t.n > 0 THEN 255 ELSE 0
  ELSE LET scaled == c * Pow2(t.k) + (o - c) * t.n
       IN IF scaled <= 0 THEN 0 ELSE Min(scaled \div Pow2(t.k), 255)

\* Color::lerp
Lerp(self, other, t) ==
  LET clamped == ClampUnit(t)
  IN <<LerpChannel(self[1], other[1], clamped), LerpChannel(self[2], other[2], clamped),
       LerpChannel(self[3], other[3], clamped), LerpChannel(self[4], other[4], clamped)>>

LerpColors ==
  {<<0, 0, 0, 0>>, <<255, 255, 255, 255>>, <<200, 37, 128, 1>>, <<10, 250, 128, 254>>,
   <<1, 2, 3, 4>>}
LerpNumerators == (-2 * Pow2(LerpFractionBits))..(2 * Pow2(LerpFractionBits))
LerpTs == {F64(n, LerpFractionBits) : n \in LerpNumerators} \cup {F64NaN, F64Inf, F64NegInf}
LerpInputs == [self : LerpColors, other : LerpColors, t : LerpTs]

LerpInit ==
  /\ fn_in \in LerpInputs
  /\ fn_out = None
  /\ OIdle
  /\ WIdle

\* one call of Color::lerp
LerpCall ==
  /\ fn_out = None
  /\ fn_out' = [color |-> Lerp(fn_in.self, fn_in.other, fn_in.t)]
  /\ UNCHANGED <<fn_in, ovars, wvars>>

LerpNext == LerpCall
SpecLerp == LerpInit /\ [][LerpNext]_vars

\* t <= 0 and t >= 1 as f64 comparisons, both false of NaN
AtMostZero(t) == t.kind # "nan" /\ t.n <= 0
AtLeastOne(t) == t.kind # "nan" /\ t.n > 0 /\ (t.kind = "inf" \/ t.n >= Pow2(t.k))

(* C32: a.lerp(b, t) equals a for every t <= 0 and equals b for every       *)
(* t >= 1, channel by channel: t is clamped to [0, 1] before interpolation. *)
C32_LerpEndpoints ==
  fn_out # None =>
    /\ AtMostZero(fn_in.t) => fn_out.color = fn_in.self
    /\ AtLeastOne(fn_in.t) => fn_out.color = fn_in.other

\* a lerp with t = 2 between two colours that differ in every channel
C32_Witness ==
  /\ fn_out # None
  /\ fn_in.t = F64(2 * Pow2(LerpFractionBits), LerpFractionBits)
  /\ fn_in.self = <<200, 37, 128, 1>>
  /\ fn_in.other = <<1, 2, 3, 4>>
  /\ fn_out.color = fn_in.other

\* the midpoint, with the fraction dropped: 200 + (1 - 200) / 2 = 100.5
C32_Midpoint ==
  /\ fn_out # None
  /\ fn_in.t = F64(2, LerpFractionBits)
  /\ fn_in.self = <<200, 37, 128, 1>>
  /\ fn_in.other = <<1, 2, 3, 4>>
  /\ fn_out.color = <<100, 19, 65, 2>>


\* ------------------------------------- image.rs: blend_with_background
\* the body of the loop: one pixel blended over bg_rgba, alpha forced to 255
BlendPixel_AlphaLeft(pixel, bg_rgba) ==
  LET alpha == F32DivBy255(pixel[4])
  IN <<BlendChannel(pixel[1], bg_rgba[1], alpha), BlendChannel(pixel[2], bg_rgba[2], alpha),
       BlendChannel(pixel[3], bg_rgba[3], alpha), pixel[4]>>

BlendPixel(pixel, bg_rgba) ==
  LET alpha == F32DivBy255(pixel[4])
  IN <<BlendChannel(pixel[1], bg_rgba[1], alpha), BlendChannel(pixel[2], bg_rgba[2], alpha),
       BlendChannel(pixel[3], bg_rgba[3], alpha), 255>>

\* for pixel in image_data.chunks_exact_mut(4): the bytes after the last whole
\* pixel are not visited
RECURSIVE BlendChunks(_, _, _)
BlendChunks(image_data, chunk, bg_rgba) ==
  IF chunk >= Len(image_data) \div 4 THEN image_data
  ELSE BlendChunks(
         WriteChunk(image_data, 4 * chunk,
                    BlendPixel(SubSeq(image_data, 4 * chunk + 1, 4 * chunk + 4), bg_rgba)),
         chunk + 1, bg_rgba)

\* blend_with_background; Color::to_rgba is the tuple itself
BlendWithBackground(image_data, background_color) ==
  BlendChunks(image_data, 0, background_color)

BackgroundPixels ==
  {<<200, 37, 128, 255>>, <<200, 37, 128, 0>>, <<200, 37, 128, 128>>, <<1, 2, 3, 254>>}
BackgroundTails == {<<>>, <<9>>, <<9, 9, 9>>}
BackgroundData ==
  {head \o tail : head \in {<<>>} \cup BackgroundPixels
                           \cup {p \o q : p \in BackgroundPixels, q \in BackgroundPixels},
                  tail \in BackgroundTails}
BackgroundColors == {<<0, 255, 64, 255>>, <<10, 20, 30, 0>>, <<255, 255, 255, 128>>}
BackgroundInputs == [image_data : BackgroundData, background_color : BackgroundColors]

BackgroundInit ==
  /\ fn_in \in BackgroundInputs
  /\ fn_out = None
  /\ OIdle
  /\ WIdle

\* one call of blend_with_background
BackgroundCall ==
  /\ fn_out = None
  /\ fn_out' = [image_data |-> BlendWithBackground(fn_in.image_data, fn_in.background_color)]
  /\ UNCHANGED <<fn_in, ovars, wvars>>

BackgroundNext == BackgroundCall
SpecBackground == BackgroundInit /\ [][BackgroundNext]_vars

\* the r, g, b of pixel number p of data
RgbAt(data, p) == <<data[4 * p + 1], data[4 * p + 2], data[4 * p + 3]>>

(* C33: after blend_with_background every complete 4-byte pixel of the      *)
(* buffer has alpha 255; a pixel whose input alpha was 255 keeps its        *)
(* r, g, b, and a pixel whose input alpha was 0 takes the background's.     *)
C33_BlendedOverBackground ==
  fn_out # None =>
    /\ Len(fn_out.image_data) = Len(fn_in.image_data)
    /\ \A p \in 0..((Len(fn_in.image_data) \div 4) - 1) :
         /\ fn_out.image_data[4 * p + 4] = 255
         /\ fn_in.image_data[4 * p + 4] = 255 =>
              RgbAt(fn_out.image_data, p) = RgbAt(fn_in.image_data, p)
         /\ fn_in.image_data[4 * p + 4] = 0 =>
              RgbAt(fn_out.image_data, p) = RgbAt(fn_in.background_color, 0)

\* a transparent and an opaque pixel, and bytes after them, were blended
C33_Witness ==
  /\ fn_out # None
  /\ fn_in.image_data = <<200, 37, 128, 0, 200, 37, 128, 255, 9>>
  /\ fn_in.background_color = <<10, 20, 30, 0>>
  /\ fn_out.image_data = <<10, 20, 30, 255, 200, 37, 128, 255, 9>>


\* ------------------------------------------------ the creation defaults
\* start stores the window it has built
WindowStored == start_pc = "store" /\ start_pc' = "store_pixels"

(* C34: starting an Overlay on which nothing was staged, like creating a    *)
(* surface from a configuration with every field absent, uses the           *)
(* documented defaults: width 800, height 600, title "Overlay",             *)
(* always-on-top.                                                           *)
C34_DocumentedDefaults ==
  [][(WindowStored /\ initial_config = None) =>
       /\ overlay_state'.window.size = <<DefaultWidth, DefaultHeight>>
       /\ overlay_state'.window.level = "AlwaysOnTop"
       /\ overlay_state'.window.title = DocumentedTitle]_vars

\* the defaults other than the title
C34_DefaultsButTitle ==
  [][(WindowStored /\ initial_config = None) =>
       /\ overlay_state'.window.size = <<DefaultWidth, DefaultHeight>>
       /\ overlay_state'.window.level = "AlwaysOnTop"
       /\ start_local.pixels.len = DefaultWidth * DefaultHeight * 4
       /\ overlay_state'.window.title = DefaultTitle]_vars


\* ------------------------------------------------ claims on draw_image
\* the frame and the source hold exactly their declared number of bytes
ExactSizes ==
  /\ fn_in.fn = "draw_image"
  /\ Len(fn_in.buffer) = fn_in.buffer_width * fn_in.buffer_height * 4
  /\ Len(fn_in.image.data) = fn_in.image.width * fn_in.image.height * 4

\* byte i of the frame after draw_image, as the claim states it
BlitExpected(i) ==
  LET px == ((i - 1) \div 4) % fn_in.buffer_width
      py == ((i - 1) \div 4) \div fn_in.buffer_width
      ix == px - fn_in.x
      iy == py - fn_in.y
  IN IF 0 <= ix /\ ix < fn_in.image.width /\ 0 <= iy /\ iy < fn_in.image.height
       THEN fn_in.image.data[(iy * fn_in.image.width + ix) * 4 + ((i - 1) % 4) + 1]
       ELSE fn_in.buffer[i]

(* C35: draw_image(x, y, image) on a frame of exactly frame_w*frame_h*4     *)
(* bytes with a source of exactly src_w*src_h*4 bytes copies source pixel   *)
(* (ix, iy) to destination pixel (x+ix, y+iy) for exactly those (ix, iy)    *)
(* with x+ix < frame_w and y+iy < frame_h and leaves every other byte       *)
(* unchanged; columns and rows past the edge are dropped, never wrapped.    *)
C35_BlitExact ==
  (fn_out # None /\ ExactSizes) =>
    /\ ~fn_out.panic
    /\ Len(fn_out.buffer) = Len(fn_in.buffer)
    /\ \A i \in 1..Len(fn_in.buffer) : fn_out.buffer[i] = BlitExpected(i)

\* a 3 x 2 image drawn at (1, 1) of a 3 x 2 frame: one row and one column of
\* the image fall inside, the rest is dropped
C35_Witness ==
  /\ fn_out # None
  /\ ExactSizes
  /\ fn_in.buffer_width = 3 /\ fn_in.buffer_height = 2
  /\ fn_in.image.width = 3 /\ fn_in.image.height = 2
  /\ fn_in.x = 1 /\ fn_in.y = 1
  /\ SubSeq(fn_out.buffer, 17, 24) = SubSeq(fn_in.image.data, 1, 8)
  /\ SubSeq(fn_out.buffer, 1, 16) = SubSeq(fn_in.buffer, 1, 16)


\* ------------------------------------- state update before the callback
\* the signals whose arm writes the shared state, and one whose arm does not
SizeSignals == {"Resized", "Occluded", "Moved"}

\* the dispatcher against every controller call that writes the size
SizeEventsNext ==
  \/ WCreate
  \/ WSetEventCallback
  \/ WSetSize
  \/ \E s \in WSizes : WResize(s)
  \/ DispFind /\ (disp_event' # None => disp_event'.kind \in SizeSignals)
  \/ DispHandle
  \/ DispCallback
SpecSizeEvents == WindowInit /\ [][SizeEventsNext]_vars

\* the match arm of window_event runs in this step
ArmRuns == disp_pc = "handle" /\ disp_pc' = "callback"

\* the dispatcher is between the match arm and the callback
ArmDone == disp_pc = "callback"

StateSize(st) == <<st.width, st.height>>

(* C36: for a dispatched Resized or Occluded signal the shared state is     *)
(* updated before the callback is invoked.  The match arm sets width and    *)
(* height, or the occluded flag, to the signalled value and calls nothing;  *)
(* from then until the callback only a set_size or resize call changes the  *)
(* size and nothing changes the flag; the callback is invoked after that.   *)
C36_StateBeforeCallback ==
  /\ [][ArmRuns =>
          /\ callbacks' = callbacks
          /\ disp_event.kind = "Resized" => StateSize(window_state') = disp_event.size
          /\ disp_event.kind = "Occluded" => window_state'.occluded = disp_event.flag]_vars
  /\ [][(ArmDone /\ disp_event.kind = "Resized"
                 /\ StateSize(window_state') # StateSize(window_state)) =>
          /\ w_calls' = w_calls + 1
          /\ w_last'.op \in {"set_size", "resize"}]_vars
  /\ [][(ArmDone /\ disp_event.kind = "Occluded") =>
          window_state'.occluded = disp_event.flag]_vars
  /\ [][callbacks' # callbacks => (ArmDone /\ disp_pc' = "idle")]_vars

\* the callback was called for a Resized signal that gave the state width 0,
\* no controller call other than set_event_callback having been made
C36_Witness ==
  /\ callbacks = <<"Resized">>
  /\ disp_pc = "idle"
  /\ w_calls = 1
  /\ window_state.width = 0


\* ------------------------- the loops of draw_line and draw_circle, stepwise
\* One action per iteration.  The call draws its arguments; fn_out holds the
\* loop variables and plots, the points handed to the bounds-checked write
\* so far (what the write does to the buffer is DrawLineOptimized and
\* DrawCircleOptimized above); pc is "loop" inside the loop, "return" after
\* it and "panic" when the call unwound.  The coordinates are those on which
\* the i32 arithmetic of the two loops is exact
LoopCoordMax == 4
LoopRadiusMax == 6

LoopInputs ==
  [fn : {"draw_line"}, buffer : {Grid(GridW, GridH)},
   x1 : 0..LoopCoordMax, y1 : 0..LoopCoordMax,
   x2 : 0..LoopCoordMax, y2 : 0..LoopCoordMax,
   buffer_width : {GridW}, buffer_height : {GridH}, overflow_checks : BOOLEAN]
  \cup
  [fn : {"draw_circle"}, buffer : {Grid(GridW, GridH)},
   cx : {0, 2}, cy : {0, 1}, radius : 0..LoopRadiusMax,
   buffer_width : {GridW}, buffer_height : {GridH}, overflow_checks : BOOLEAN]

\* no call has been made
LoopsInit ==
  /\ fn_in = None
  /\ fn_out = None
  /\ OIdle
  /\ WIdle

\* the bounds-checked write of a point unwinds the call.  The buffer keeps
\* its length, so the arguments' buffer stands for the buffer being drawn
PlotPanics(in, px, py) ==
  PlotChecked(in.buffer, px, py, in.buffer_width, in.buffer_height, Red,
              in.overflow_checks).panic

\* let dx = (x1_i - x0).abs();  let dy = -(y1_i - y0).abs()
LineDx(in) == Abs(in.x2 - in.x1)
LineDy(in) == -Abs(in.y2 - in.y1)

\* let sx = if x0 < x1_i { 1 } else { -1 }, and sy alike
LineSx(in) == IF in.x1 < in.x2 THEN 1 ELSE -1
LineSy(in) == IF in.y1 < in.y2 THEN 1 ELSE -1

\* the two error steps with neither taken: the loop variables stay
LineAdvance_Stalled(x0, y0, error, dx, dy, sx, sy) ==
  [x0 |-> x0, y0 |-> y0, error |-> error, overflow |-> FALSE]

\* let e2 = 2 * error; if e2 >= dy { error += dy; x0 += sx; }
\* if e2 <= dx { error += dx; y0 += sy; }
LineAdvance(x0, y0, error, dx, dy, sx, sy) ==
  LET e2 == WrappingAdd(error, error)
      step_x == e2 >= dy
      error_x == IF step_x THEN WrappingAdd(error, dy) ELSE error
      step_y == e2 <= dx
  IN [x0 |-> IF step_x THEN WrappingAdd(x0, sx) ELSE x0,
      y0 |-> IF step_y THEN WrappingAdd(y0, sy) ELSE y0,
      error |-> IF step_y THEN WrappingAdd(error_x, dx) ELSE error_x,
      overflow |->
        \/ AddI32Overflows(error, error)
        \/ step_x /\ (AddI32Overflows(error, dy) \/ AddI32Overflows(x0, sx))
        \/ step_y /\ (AddI32Overflows(error_x, dx) \/ AddI32Overflows(y0, sy))]

\* draw_line_optimized up to the loop
LineEnter ==
  /\ fn_in = None
  /\ \E in \in LoopInputs :
       /\ in.fn = "draw_line"
       /\ fn_in' = in
       /\ fn_out' = [pc |-> "loop", plots |-> {},
                     x0 |-> in.x1, y0 |-> in.y1,
                     error |-> LineDx(in) + LineDy(in)]
  /\ UNCHANGED <<ovars, wvars>>

\* one iteration of the loop of draw_line_optimized
LineIterate ==
  /\ fn_out # None
  /\ fn_in.fn = "draw_line"
  /\ fn_out.pc = "loop"
  /\ \E next \in {LineAdvance(fn_out.x0, fn_out.y0, fn_out.error,
                              LineDx(fn_in), LineDy(fn_in),
                              LineSx(fn_in), LineSy(fn_in))},
        here \in {[fn_out EXCEPT !.plots = @ \cup {<<fn_out.x0, fn_out.y0>>}]} :
       fn_out' =
          IF PlotPanics(fn_in, fn_out.x0, fn_out.y0)
            THEN [here EXCEPT !.pc = "panic"]
          ELSE IF fn_out.x0 = fn_in.x2 /\ fn_out.y0 = fn_in.y2
            THEN [here EXCEPT !.pc = "return"]
          ELSE IF next.overflow /\ fn_in.overflow_checks
            THEN [here EXCEPT !.pc = "panic"]
          ELSE [here EXCEPT !.x0 = next.x0, !.y0 = next.y0, !.error = next.error]
  /\ UNCHANGED <<fn_in, ovars, wvars>>

\* the two branches with x advanced only where y is decremented
CircleAdvance_XWithY(x, y, d) ==
  IF d > 0
    THEN [x |-> x + 1, y |-> y - 1, d |-> d + 4 * ((x + 1) - (y - 1)) + 10,
          overflow |-> FALSE]
    ELSE [x |-> x, y |-> y, d |-> d + 4 * x + 6, overflow |-> FALSE]

\* x += 1; if d > 0 { y -= 1; d += 4 * (x - y) + 10 } else { d += 4 * x + 6 }
CircleAdvance(x, y, d) ==
  LET next_x == WrappingAdd(x, 1)
      next_y == IF d > 0 THEN WrappingSub(y, 1) ELSE y
      term == IF d > 0 THEN Times4(WrappingSub(next_x, next_y))
              ELSE Times4(next_x)
      plus == IF d > 0 THEN 10 ELSE 6
  IN [x |-> next_x, y |-> next_y,
      d |-> WrappingAdd(d, WrappingAdd(term.value, plus)),
      overflow |->
        \/ AddI32Overflows(x, 1)
        \/ d > 0 /\ (SubI32Overflows(y, 1) \/ SubI32Overflows(next_x, next_y))
        \/ term.overflow
        \/ AddI32Overflows(term.value, plus)
        \/ AddI32Overflows(d, WrappingAdd(term.value, plus))]

\* draw_circle_optimized up to the loop
CircleEnter ==
  /\ fn_in = None
  /\ \E in \in LoopInputs :
       /\ in.fn = "draw_circle"
       /\ fn_in' = in
       /\ LET twice == WrappingAdd(in.radius, in.radius)
              overflow == AddI32Overflows(in.radius, in.radius)
                            \/ SubI32Overflows(3, twice)
          IN fn_out' = [pc |-> IF overflow /\ in.overflow_checks
                                 THEN "panic" ELSE "loop",
                        plots |-> {},
                        x |-> 0, y |-> in.radius, d |-> WrappingSub(3, twice)]
  /\ UNCHANGED <<ovars, wvars>>

\* the test of while y >= x and, when it passes, one run of the body: the
\* eight points are handed to the plot in the order of the array, and a plot
\* that panics ends the call with the points after it never handed over
CircleIterate ==
  /\ fn_out # None
  /\ fn_in.fn = "draw_circle"
  /\ fn_out.pc = "loop"
  /\ \E points \in {CirclePoints(fn_in.cx, fn_in.cy, fn_out.x, fn_out.y)},
        next \in {CircleAdvance(fn_out.x, fn_out.y, fn_out.d)} :
     \E panics \in {{i \in 1..Len(points) :
                       PlotPanics(fn_in, points[i][1], points[i][2])}} :
     \E last \in {IF panics = {} THEN Len(points)
                  ELSE CHOOSE i \in panics : \A j \in panics : i <= j} :
     \E here \in {[fn_out EXCEPT !.plots = @ \cup {points[i] : i \in 1..last}]} :
       fn_out' =
          IF fn_out.y < fn_out.x THEN [fn_out EXCEPT !.pc = "return"]
          ELSE IF CirclePointsOverflow(fn_in.cx, fn_in.cy, fn_out.x, fn_out.y)
                    /\ fn_in.overflow_checks
            THEN [fn_out EXCEPT !.pc = "panic"]
          ELSE IF panics # {} \/ (next.overflow /\ fn_in.overflow_checks)
            THEN [here EXCEPT !.pc = "panic"]
          ELSE [here EXCEPT !.x = next.x, !.y = next.y, !.d = next.d]
  /\ UNCHANGED <<fn_in, ovars, wvars>>

LoopsNext ==
  \/ LineEnter
  \/ LineIterate
  \/ CircleEnter
  \/ CircleIterate
SpecLoops == LoopsInit /\ [][LoopsNext]_vars

\* a call that has been made keeps running: nothing but its own loop can
\* stop the thread inside draw_line or draw_circle
FairSpecLoops == SpecLoops /\ WF_vars(LoopsNext)

\* the call is inside its loop
InLoop == fn_out # None /\ fn_out.pc = "loop"

\* the call left its loop through the break or the loop test
Returned == fn_out # None /\ fn_out.pc = "return"

\* this step runs the body of the circle loop to its end
CircleBodyRuns ==
  /\ InLoop
  /\ fn_in.fn = "draw_circle"
  /\ fn_out'.pc = "loop"

\* the bounds-checked writes at the points of plots, in any order: the
\* writes all store the same colour
RECURSIVE PlotAll(_, _, _)
PlotAll(buffer, points, in) ==
  IF points = {} THEN buffer
  ELSE LET p == CHOOSE q \in points : TRUE
       IN PlotAll(PlotChecked(buffer, p[1], p[2], in.buffer_width,
                              in.buffer_height, Red, in.overflow_checks).buffer,
                  points \ {p}, in)

\* the stepwise loops hand the plot the points of the whole call
LoopsAgreeWithCall ==
  Returned =>
    LET call == IF fn_in.fn = "draw_line"
                  THEN DrawLineOptimized(fn_in.buffer, fn_in.x1, fn_in.y1,
                                         fn_in.x2, fn_in.y2, fn_in.buffer_width,
                                         fn_in.buffer_height, Red,
                                         fn_in.overflow_checks)
                  ELSE DrawCircleOptimized(fn_in.buffer, fn_in.cx, fn_in.cy,
                                           fn_in.radius, fn_in.buffer_width,
                                           fn_in.buffer_height, Red,
                                           fn_in.overflow_checks)
    IN /\ ~call.panic
       /\ call.buffer = PlotAll(fn_in.buffer, fn_out.plots, fn_in)
       /\ fn_in.fn = "draw_line" =>
            fn_out.plots = {call.visited[i] : i \in 1..Len(call.visited)}

\* the loop was left where the code leaves it: the line loop at (x2, y2),
\* the circle loop with y < x
LeftAtEnd ==
  /\ Returned
  /\ fn_in.fn = "draw_line" => (fn_out.x0 = fn_in.x2 /\ fn_out.y0 = fn_in.y2)
  /\ fn_in.fn = "draw_circle" => fn_out.y < fn_out.x

(* C37: draw_line and draw_circle terminate on the modelled coordinates.    *)
(* Every call leaves its loop after finitely many iterations, by the break  *)
(* or the loop test and not by a panic: the line loop at (x2, y2), the      *)
(* circle loop with y < x.  Every run of the circle body starts with        *)
(* y >= x, advances x by exactly 1 and does not increase y.                 *)
C37_LoopsTerminate ==
  /\ <>LeftAtEnd
  /\ [][CircleBodyRuns =>
          /\ fn_out.y >= fn_out.x
          /\ fn_out'.x = fn_out.x + 1
          /\ fn_out'.y <= fn_out.y]_vars

\* a line that is neither horizontal nor vertical nor diagonal was walked
\* from its first endpoint to its second
C37_Witness ==
  /\ Returned
  /\ fn_in.fn = "draw_line"
  /\ fn_in.x1 = LoopCoordMax /\ fn_in.y1 = 0
  /\ fn_in.x2 = 0 /\ fn_in.y2 = 2
  /\ fn_out.x0 = 0 /\ fn_out.y0 = 2

\* the loop of a circle of the largest radius was left with y < x
C37_CircleLeft ==
  /\ Returned
  /\ fn_in.fn = "draw_circle"
  /\ fn_in.radius = LoopRadiusMax
  /\ fn_out.y < fn_out.x


\* ------------------------------------- a mutated frame reaches the screen
\* the event loop signals RedrawRequested to window_event for a window whose
\* redraw was requested
DispRedraw ==
  /\ disp_pc = "idle"
  /\ state_lock = "free"
  /\ window_state.window # None
  /\ window_state.window.redraw
  /\ disp_pc' = "handle"
  /\ disp_event' = [kind |-> "RedrawRequested"]
  /\ UNCHANGED <<window_state, state_lock, CtlVars, w_last, w_calls,
                 exit_requested, callbacks, w_events, w_presented, ovars, fvars>>

\* the signals that stop the loop, gate the rendering or change the frame
RedrawSignals == {"CloseRequested", "Occluded"}

\* the surface has been created, with either occlusion policy, and no call
\* and no signal has followed; no frame has been presented
RedrawInit ==
  /\ \E config \in WConfigs, render \in BOOLEAN :
       window_state =
         StoredSurface(NewWindowState,
                       [config EXCEPT !.render_when_occluded = Some(render)])
  /\ state_lock = "free"
  /\ ctl_pc = [t \in CtlThreads |-> "idle"]
  /\ ctl_local = [t \in CtlThreads |-> None]
  /\ w_last = [op |-> "none", args |-> <<>>, created |-> FALSE, frame_len |-> -1,
               result |-> Pending, value |-> None, state_changed |-> FALSE]
  /\ w_calls = 0
  /\ disp_pc = "idle"
  /\ disp_event = None
  /\ exit_requested = FALSE
  /\ callbacks = <<>>
  /\ w_events = 0
  /\ w_presented = <<>>
  /\ OIdle
  /\ FIdle

\* the calls and the signals of a run of the redraw specification
RedrawMaxCalls == 2
RedrawMaxEvents == 1

\* the frame mutations on the created surface, update_frame in its two
\* critical sections, and the event loop with those signals
RedrawCall ==
  /\ w_calls < RedrawMaxCalls
  /\ \/ UpdateFrameCheck("t1")
     \/ WClearFrame
     \/ WDrawRectangle
     \/ WDrawImage
     \/ \E s \in WSizes : WResize(s)
     \/ WLockPoisoned
RedrawSignal ==
  /\ w_events < RedrawMaxEvents
  /\ DispFind
  /\ disp_event' # None => disp_event'.kind \in RedrawSignals
RedrawNext ==
  \/ RedrawCall
  \/ UpdateFrameCopy("t1")
  \/ RedrawSignal
  \/ DispRedraw
  \/ DispHandle
  \/ DispCallback
  \/ DispLockPoisoned
SpecRedraw == RedrawInit /\ [][RedrawNext]_vars

\* the event loop keeps being run or pumped: the thread inside window_event
\* goes on, and a requested redraw is signalled
FairSpecRedraw ==
  /\ SpecRedraw
  /\ WF_disp_pc(DispRedraw /\ ~exit_requested)
  /\ WF_disp_pc(DispHandle)
  /\ WF_disp_pc(DispCallback)
  /\ WF_disp_pc(DispLockPoisoned)

FrameMutations ==
  {"update_frame", "clear_frame", "draw_rectangle", "draw_image", "resize"}

\* the last controller call was a frame mutation and it returned Ok
MutationReturned ==
  /\ w_last.op \in FrameMutations
  /\ w_last.result = Ok

\* this step is the return of a frame mutation with Ok
MutationReturns ==
  /\ w_calls' # w_calls \/ w_last.result = Pending
  /\ w_last'.op \in FrameMutations
  /\ w_last'.result = Ok

\* rendering is gated: the surface is occluded and render_when_occluded is off
OccludedAndGated == window_state.occluded /\ ~window_state.render_when_occluded

\* the event loop is no longer run: a close was requested or its thread
\* panicked on the poisoned lock
LoopStopped == exit_requested \/ disp_pc = "panicked"

\* a requested redraw has not been delivered yet
RedrawPending == window_state.window.redraw

\* the requested redraw is taken by the RedrawRequested arm
RedrawTaken == RedrawPending /\ ~window_state'.window.redraw

\* the frame as it is now was handed to pixels.render() and no redraw is
\* pending
FrameRendered ==
  /\ ~RedrawPending
  /\ window_state.pixels = w_presented

\* C38 as the spec states it: every frame mutation that returns Ok
\* (update_frame, clear_frame, draw_rectangle, draw_image, resize) has
\* requested a redraw of the window when it returns, and with the event loop
\* running, no close requested and rendering not gated, the mutated frame is
\* rendered: the step that takes the request presents the frame as it is
\* then, the mutation included
C38_MutationRendered ==
  /\ [][/\ MutationReturns => window_state'.window.redraw
        /\ RedrawTaken => w_presented' = window_state'.pixels
       ]_<<w_calls, w_last.result, window_state.window.redraw>>
  /\ (MutationReturned ~> (~RedrawPending \/ LoopStopped \/ OccludedAndGated))

(* C38: every frame mutation that returns Ok (update_frame, clear_frame,    *)
(* draw_rectangle, draw_image, resize) has requested a redraw of the        *)
(* window when it returns; a requested redraw is taken only by a step that  *)
(* hands the frame as it is then, the mutation included, to pixels.render(),*)
(* which presents that frame or fails and presents nothing, the frame shown *)
(* before staying; and with the event loop running the request of a         *)
(* returned mutation is eventually taken, unless the loop stopped on a      *)
(* close request or the surface is occluded with rendering gated.           *)
C38_MutationHandedToRender ==
  /\ [][/\ MutationReturns => window_state'.window.redraw
        /\ RedrawTaken => \/ w_presented' = window_state'.pixels
                          \/ w_presented' = w_presented
       ]_<<w_calls, w_last.result, window_state.window.redraw>>
  /\ (MutationReturned ~> (~RedrawPending \/ LoopStopped \/ OccludedAndGated))

\* resize returned Ok and the resized frame was rendered by the redraw it
\* requested
C38_Witness ==
  /\ w_last.op = "resize"
  /\ w_last.result = Ok
  /\ FrameRendered
  /\ Len(w_presented) = 8
  /\ ~exit_requested
  /\ w_events = 0

\* ------------------ lib.rs and window.rs: the order in which locks are taken
\* Every function is written as the list of the lock() calls and guard drops
\* it makes, in program order; a thread runs its list one entry per step and
\* waits at a lock() for as long as another guard of that mutex is alive.
LockOf(mutex) == [op |-> "lock", mutex |-> mutex]
DropOf(mutex) == [op |-> "drop", mutex |-> mutex]

\* the windows of OverlayApplication.windows, in the order of the vector
AppWindows == 1..2
OverlayMutexes == {"state", "config"}
WindowMutexes == {"window1", "window2"}
WindowMutex(w) == IF w = 1 THEN "window1" ELSE "window2"
Mutexes == OverlayMutexes \cup WindowMutexes

SetterThreads == {"setter1", "setter2"}
LockThreads == SetterThreads \cup {"start", "dispatcher", "controller"}

\* set_position, set_size, set_title, set_window_level, update_frame of the
\* Overlay: the state guard lives to the end of the function, the
\* configuration guard of the not-yet-created branch to the end of its block
SetterLocks(created) ==
  IF created
    THEN <<LockOf("state"), DropOf("state")>>
    ELSE <<LockOf("state"), LockOf("config"), DropOf("config"), DropOf("state")>>

\* start with the state guard asked for while the configuration guard of
\* create_overlay_window_with_config is still alive
StartLocks_ConfigHeld(build_ok, frame_data) ==
  <<LockOf("config"), DropOf("config"),
    LockOf("config"), LockOf("state"), DropOf("state"), DropOf("config")>>

\* Overlay::start up to the event loop: the initial frame is read under the
\* configuration guard, create_overlay_window_with_config reads the
\* configuration under its own guard and drops it, the window and the pixels
\* are stored under the state guard, and the initial frame is copied under a
\* second state guard
StartLocks(build_ok, frame_data) ==
  <<LockOf("config"), DropOf("config"), LockOf("config"), DropOf("config")>>
    \o (IF build_ok THEN <<LockOf("state"), DropOf("state")>> ELSE <<>>)
    \o (IF build_ok /\ frame_data THEN <<LockOf("state"), DropOf("state")>> ELSE <<>>)

\* the closure of Overlay::start's event loop: the Resized, RedrawRequested
\* and MainEventsCleared arms take the state guard once
LoopEventLocks == <<LockOf("state"), DropOf("state")>>

\* window_event whose find() keeps the guard of every window it passed
WindowEventLocks_GuardsKept(target, event) ==
  [i \in 1..target |-> LockOf(WindowMutex(i))]
    \o [i \in 1..target |-> DropOf(WindowMutex(i))]

\* OverlayApplication::window_event for an event of window target (0: no
\* window has the id): find() locks the windows in turn, each guard dropped
\* at the end of the closure, up to the first match; the Resized, Occluded
\* and RedrawRequested arms lock the matched window; the callback is called
\* under a further guard when the event is reported
WindowEventLocks(target, event) ==
  LET last == IF target = 0 THEN Cardinality(AppWindows) ELSE target
      find == [i \in 1..(2 * last) |->
                 IF i % 2 = 1 THEN LockOf(WindowMutex((i + 1) \div 2))
                 ELSE DropOf(WindowMutex(i \div 2))]
      arm == IF event.kind \in {"Resized", "Occluded", "RedrawRequested"}
               THEN <<LockOf(WindowMutex(target)), DropOf(WindowMutex(target))>>
               ELSE <<>>
      callback == IF OverlayEventOf(event) # None
                    THEN <<LockOf(WindowMutex(target)), DropOf(WindowMutex(target))>>
                    ELSE <<>>
  IN IF target = 0 THEN find ELSE find \o arm \o callback

\* a WindowController or FrameController call on window w: one guard, and
\* for update_frame a second one after the first was dropped
ControllerLocks(w, twice) ==
  <<LockOf(WindowMutex(w)), DropOf(WindowMutex(w))>>
    \o (IF twice THEN <<LockOf(WindowMutex(w)), DropOf(WindowMutex(w))>> ELSE <<>>)

LockOrderInit ==
  /\ fn_in = [fn |-> "lock_order"]
  /\ fn_out = [held |-> [m \in Mutexes |-> "free"],
               list |-> [t \in LockThreads |-> <<>>],
               at |-> [t \in LockThreads |-> 1],
               started |-> FALSE,
               created |-> FALSE,
               calls |-> 0]
  /\ OIdle
  /\ WIdle

\* the thread is between two functions
BetweenCalls(t) == fn_out.at[t] > Len(fn_out.list[t])
NextEntry(t) == fn_out.list[t][fn_out.at[t]]

\* the lists a thread may run next
ListsOf(t) ==
  CASE t \in SetterThreads -> {SetterLocks(fn_out.created)}
    [] t = "start" ->
         IF ~fn_out.started
           THEN { StartLocks(build_ok, frame_data) :
                    build_ok \in BOOLEAN, frame_data \in BOOLEAN }
           ELSE IF fn_out.created THEN {LoopEventLocks} ELSE {}
    [] t = "dispatcher" ->
         { WindowEventLocks(target, event) :
             target \in {0} \cup AppWindows, event \in WEvents }
    [] OTHER -> { ControllerLocks(w, twice) : w \in AppWindows, twice \in BOOLEAN }

\* a thread enters a function
LockOrderCall(t) ==
  \E list \in ListsOf(t) :
    /\ BetweenCalls(t)
    /\ fn_out.calls < MaxCalls
    /\ fn_out' = [fn_out EXCEPT
                    !.list[t] = list,
                    !.at[t] = 1,
                    !.started = @ \/ t = "start",
                    !.calls = @ + 1]
    /\ UNCHANGED <<fn_in, ovars, wvars>>

\* lock(): the guard is handed out when no guard of the mutex is alive.  A
\* setter reads state.window under the guard it was given, which decides the
\* rest of its list
LockOrderAcquire(t) ==
  /\ ~BetweenCalls(t)
  /\ NextEntry(t).op = "lock"
  /\ fn_out.held[NextEntry(t).mutex] = "free"
  /\ fn_out' = [fn_out EXCEPT
                  !.held[NextEntry(t).mutex] = t,
                  !.list[t] = IF t \in SetterThreads /\ fn_out.at[t] = 1
                                THEN SetterLocks(fn_out.created) ELSE @,
                  !.at[t] = @ + 1]
  /\ UNCHANGED <<fn_in, ovars, wvars>>

\* the guard is dropped; start stores the window under its first state guard
LockOrderDrop(t) ==
  /\ ~BetweenCalls(t)
  /\ NextEntry(t).op = "drop"
  /\ fn_out' = [fn_out EXCEPT
                  !.held[NextEntry(t).mutex] = "free",
                  !.created = @ \/ (t = "start" /\ NextEntry(t).mutex = "state"),
                  !.at[t] = @ + 1]
  /\ UNCHANGED <<fn_in, ovars, wvars>>

LockOrderNext ==
  \E t \in LockThreads :
    \/ LockOrderCall(t)
    \/ LockOrderAcquire(t)
    \/ LockOrderDrop(t)
SpecLockOrder == LockOrderInit /\ [][LockOrderNext]_vars

\* the guards a thread holds, and the lock() it waits at
Holds(t, mutex) == fn_out.held[mutex] = t
WaitsFor(t, mutex) ==
  IF BetweenCalls(t) THEN FALSE
  ELSE NextEntry(t).op = "lock" /\ NextEntry(t).mutex = mutex

\* the thread that keeps t waiting: the holder of the mutex t asks for
Blocked(t) == \E m \in Mutexes : WaitsFor(t, m) /\ fn_out.held[m] # "free"
BlockerOf(t) == fn_out.held[CHOOSE m \in Mutexes : WaitsFor(t, m)]

\* t waits for a thread that waits, and so on for n more threads
RECURSIVE WaitsInChain(_, _)
WaitsInChain(t, n) ==
  IF ~Blocked(t) THEN FALSE
  ELSE IF n = 0 THEN TRUE
  ELSE WaitsInChain(BlockerOf(t), n - 1)

\* a chain of waiting threads longer than the number of threads closes a cycle
Deadlocked == \E t \in LockThreads : WaitsInChain(t, Cardinality(LockThreads))

(* C39: no thread waits for the state lock while it holds the pending-      *)
(* configuration lock; the event dispatcher holds no window's state lock    *)
(* while it waits for one; and in no interleaving of the setters, start,    *)
(* the event loop and the dispatcher do waiting threads form a cycle.       *)
C39_NoLockCycle ==
  /\ fn_in # None
  /\ \A t \in LockThreads : ~(Holds(t, "config") /\ WaitsFor(t, "state"))
  /\ \A held \in WindowMutexes, asked \in WindowMutexes :
       ~(Holds("dispatcher", held) /\ WaitsFor("dispatcher", asked))
  /\ ~Deadlocked

\* a setter that holds the state lock waits for the configuration lock while
\* start reads the configuration under its guard
C39_Witness ==
  /\ fn_in # None
  /\ Holds("setter1", "state")
  /\ WaitsFor("setter1", "config")
  /\ Holds("start", "config")
  /\ ~fn_out.created

\* the dispatcher waits for a window that a controller call has locked
C39_DispatcherWaits ==
  /\ fn_in # None
  /\ WaitsFor("dispatcher", "window2")
  /\ Holds("controller", "window2")

\* ------------------------------------- window.rs: FrameController::resize
\* the step is a call of resize(w, h) on a created surface
ResizeCalled ==
  /\ w_calls' = w_calls + 1
  /\ w_last'.op = "resize"
  /\ window_state.pixels # None

(* C40: FrameController::resize(w, h) on a created surface is all or        *)
(* nothing.  When the buffer's resize fails the call returns an error,      *)
(* state.width and state.height are what they were and no redraw is         *)
(* requested; otherwise it returns Ok with state.width = w and              *)
(* state.height = h.                                                        *)
C40_ResizeAllOrNothing ==
  [][ResizeCalled =>
       IF ResizeBufferFails(w_last'.args[1], w_last'.args[2])
         THEN /\ w_last'.result.status = "GenericFailure"
              /\ window_state'.width = window_state.width
              /\ window_state'.height = window_state.height
              /\ window_state'.window.redraw = window_state.window.redraw
         ELSE /\ w_last'.result = Ok
              /\ window_state'.width = w_last'.args[1]
              /\ window_state'.height = w_last'.args[2]]_vars

\* resize(0, 1) failed on a surface of one pixel: the size is still 1 x 1 and
\* no redraw is pending
C40_Witness ==
  /\ w_last.op = "resize"
  /\ w_last.args = <<0, 1>>
  /\ w_last.result.status = "GenericFailure"
  /\ window_state.pixels # None
  /\ window_state.width = 1
  /\ window_state.height = 1
  /\ ~window_state.window.redraw

\* resize(2, 1) succeeded on a surface of one pixel
C40_Resized ==
  /\ w_last.op = "resize"
  /\ w_last.args = <<2, 1>>
  /\ w_last.result = Ok
  /\ window_state.width = 2
  /\ w_calls = 1

====
